---- MODULE Spec2Model ----
(***************************************************************************)
(* The counted-transaction clients of pgxl_testkit: FlexRadio              *)
(* (devices/flex.py) and PGXL (devices/pgxl.py), each talking to its peer  *)
(* over one TCP stream.  Text is a sequence of symbols: one-character      *)
(* strings, plus a few opaque tokens (a command body, the key              *)
(* "band_persistence_enabled=").                                           *)
(***************************************************************************)
EXTENDS Integers, Sequences, FiniteSets, TLC

\* ------------------------------------------------------------------ bounds
\* sends per connection
MaxSeq == 2
\* lines the peer sends on one connection
MaxPeerLines == 2
\* cases a suite discovers
MaxCases == 3
\* frequencies in the plan of a sweep
MaxPoints == 2
\* telemetry samples of a burn-in
MaxSamples == 2

\* ------------------------------------------------------------ text helpers
NL == "\n"
BAR == "|"
PKEY == "band_persistence_enabled="
Whitespace == {" ", "\n", "\r", "\t"}
DigitChars == <<"0", "1", "2", "3", "4", "5", "6", "7", "8", "9">>
None == "None"

\* str(n)
RECURSIVE Str(_)
Str(n) ==
  IF n < 0 THEN <<"-">> \o Str(0 - n)
  ELSE IF n < 10 THEN <<DigitChars[n + 1]>>
  ELSE Str(n \div 10) \o <<DigitChars[(n % 10) + 1]>>

IsDigit(c) == \E i \in 1..10 : DigitChars[i] = c
DigitVal(c) == (CHOOSE i \in 1..10 : DigitChars[i] = c) - 1

\* s.startswith(p)
StartsWith(s, p) ==
  /\ Len(p) <= Len(s)
  /\ \A i \in 1..Len(p) : s[i] = p[i]

\* s.find(c): index of the first c (1-based), 0 when absent
Find(s, c) ==
  IF \E i \in 1..Len(s) : s[i] = c
  THEN CHOOSE i \in 1..Len(s) : s[i] = c /\ \A j \in 1..(i - 1) : s[j] # c
  ELSE 0

\* s.strip()
Strip(s) ==
  IF \A i \in 1..Len(s) : s[i] \in Whitespace THEN <<>>
  ELSE LET a == CHOOSE i \in 1..Len(s) :
                  s[i] \notin Whitespace /\ \A j \in 1..(i - 1) : s[j] \in Whitespace
           b == CHOOSE i \in 1..Len(s) :
                  s[i] \notin Whitespace /\ \A j \in (i + 1)..Len(s) : s[j] \in Whitespace
       IN SubSeq(s, a, b)

LowerChars == <<"a", "b", "c", "g", "o", "s", "u", "w">>
UpperChars == <<"A", "B", "C", "G", "O", "S", "U", "W">>

\* s.upper(), for the letters that occur in the mode names considered
Upper(s) ==
  [i \in 1..Len(s) |->
     IF \E j \in 1..Len(LowerChars) : LowerChars[j] = s[i]
     THEN UpperChars[CHOOSE j \in 1..Len(LowerChars) : LowerChars[j] = s[i]]
     ELSE s[i]]

\* s.split()[0]: the first whitespace-delimited token, <<>> when there is none
FirstToken(s) ==
  LET t == Strip(s)
      w == IF \E i \in 1..Len(t) : t[i] \in Whitespace
           THEN CHOOSE i \in 1..Len(t) :
                  t[i] \in Whitespace /\ \A j \in 1..(i - 1) : t[j] \notin Whitespace
           ELSE Len(t) + 1
  IN SubSeq(t, 1, w - 1)

\* int(s, 10): [ok, val]; surrounding whitespace, a sign and leading zeros
\* are accepted, as are single underscores between digits
IntParse(s) ==
  LET t == Strip(s)
      signed == Len(t) > 0 /\ t[1] \in {"+", "-"}
      d == IF signed THEN SubSeq(t, 2, Len(t)) ELSE t
      wellFormed ==
        /\ Len(d) > 0
        /\ \A i \in 1..Len(d) : IsDigit(d[i]) \/ d[i] = "_"
        /\ IsDigit(d[1]) /\ IsDigit(d[Len(d)])
        /\ \A i \in 1..(Len(d) - 1) : ~(d[i] = "_" /\ d[i + 1] = "_")
      digs == SelectSeq(d, IsDigit)
      RECURSIVE Val(_)
      Val(k) == IF k = 0 THEN 0 ELSE 10 * Val(k - 1) + DigitVal(digs[k])
      mag == Val(Len(digs))
  IN IF wellFormed
     THEN [ok |-> TRUE, val |-> IF signed /\ t[1] = "-" THEN 0 - mag ELSE mag]
     ELSE [ok |-> FALSE, val |-> 0]

\* bytes outside ASCII: the two bytes of a two-byte UTF-8 character, and
\* the character they encode
LEAD == "0xC3"
CONT == "0xA9"
EACUTE == "U+00E9"

\* bytes.decode("utf-8", errors="ignore") of one chunk: an ASCII byte is its
\* character, a lead byte with its continuation is the character they
\* encode, a lead byte without one (the end of the chunk included) and a
\* continuation without a lead byte are dropped
Decode(bs) ==
  LET kept == SelectSeq([i \in 1..Len(bs) |-> i],
                        LAMBDA i : IF bs[i] = LEAD THEN i < Len(bs) /\ bs[i + 1] = CONT
                                   ELSE bs[i] # CONT)
  IN [j \in 1..Len(kept) |-> IF bs[kept[j]] = LEAD THEN EACUTE ELSE bs[kept[j]]]

\* the complete lines of a text: every piece that a "\n" ends, stripped
RECURSIVE SplitLines(_)
SplitLines(s) ==
  LET n == Find(s, NL)
  IN IF n = 0 THEN <<>>
     ELSE <<Strip(SubSeq(s, 1, n - 1))>> \o SplitLines(SubSeq(s, n + 1, Len(s)))

\* a split that leaves the whole text behind
KeepsAll(s) == s

\* what is left of a text after its last "\n"
RECURSIVE Remainder(_)
Remainder(s) ==
  LET n == Find(s, NL)
  IN IF n = 0 THEN s ELSE Remainder(SubSeq(s, n + 1, Len(s)))

\* ------------------------------------------------------------------ state
VARIABLES
  dev,                    \* which client the caller constructed: "radio" or "amp"
  gc,                     \* what the interpreter does with a socket nothing refers to any more:
                          \* "refcount" closes it at once, "deferred" leaves it open
  pc,                     \* position of the caller inside the client's code
  call,                   \* the call in progress: its arguments and locals
  ret,                    \* outcome of the call that just ended: value returned or error raised
  sock,                   \* FlexRadio._sock: 0 is None, 1 an open socket
  seq,                    \* FlexRadio._seq
  rxbuf,                  \* FlexRadio._rxbuf
  connected,              \* FlexRadio._connected
  last_band_persistence,  \* FlexRadio._last_band_persistence: "None", "True", "False"
  amp_sock,               \* PGXL._sock
  tx_id,                  \* PGXL._tx_id
  firmware_version,       \* PGXL.firmware_version: "None", or "banner" for a banner text
  used,                   \* the client has opened a socket before
  leaked,                 \* a socket this client opened is still open and no longer referred to by it
  wire,                   \* frames written on the current socket, oldest first
  inflight,               \* text the peer has sent that no recv has returned yet
  peerClosed,             \* the peer has closed its end of the stream
  peerSent,               \* lines the peer has sent on this connection
  answered,               \* index on the wire of the last frame the peer has replied to, each
                          \* reply so far being the own reply of a later frame than the one
                          \* before (-1 once the peer has sent a reply that is not)
  werr,                   \* the current socket is broken: a sendall on it has raised
  hmatch,                 \* first line received in the current reply wait that starts with R<seq>| (<<>>: none yet)
  hother,                 \* another line was received in the current reply wait before that one
  hstray,                 \* a reply to another sequence number was among those lines
  received,               \* the bytes the recv calls of _read_lines have returned on this connection
  delivered,              \* the lines the calls of _read_lines have returned, in order
  hpers,                  \* persistence value of the last field-bearing line received by the
                          \* current call: in a reply wait, among the lines before the match;
                          \* in connect, among the lines of the priming and post-subscribe reads
  cmd,                    \* the command or test case in progress: "none" while the caller
                          \* drives a client directly, "run", "sweep", "flex", "burn_in"
  opt,                    \* the options the command was started with
  stmt,                   \* position of the command in its code
  raising,                \* the exception that is propagating in the command ("none": none)
  todo,                   \* the device calls left in the block the command is executing
  issued,                 \* the device calls the command has made, in order, with their outcomes
  test_cases,             \* TestRunner.run: the discovered cases
  results,                \* TestRunner.run: the results appended so far
  exit_code               \* exit status of the command (-1: still running)

radioVars == <<sock, seq, rxbuf, connected, last_band_persistence>>
ampVars == <<amp_sock, tx_id, firmware_version>>
netVars == <<used, leaked, wire, inflight, peerClosed, peerSent, answered, werr>>
monVars == <<hmatch, hother, hstray, hpers, received, delivered>>
appVars == <<cmd, opt, stmt, raising, todo, issued, test_cases, results, exit_code>>
vars == <<dev, gc, pc, call, ret, sock, seq, rxbuf, connected, last_band_persistence,
          amp_sock, tx_id, firmware_version, used, leaked, wire, inflight,
          peerClosed, peerSent, answered, werr, hmatch, hother, hstray, hpers,
          received, delivered, cmd, opt, stmt, raising, todo, issued, test_cases,
          results, exit_code>>

NoOutcome == [kind |-> "none", val |-> <<>>, seq |-> 0, body |-> <<>>]
\* fresh: the client had opened no socket when the call began; arg: the
\* number a setter was called with (band_m, pct, kHz); mode: the mode string
\* set_mode was called with
NoCall ==
  [op |-> "none", body |-> <<>>, expect |-> FALSE, subscribe |-> FALSE, seq |-> 0,
   fresh |-> FALSE, arg |-> 0, mode |-> <<>>]
Call(op, body, expect, subscribe) ==
  [op |-> op, body |-> body, expect |-> expect, subscribe |-> subscribe, seq |-> 0,
   fresh |-> ~used, arg |-> 0, mode |-> <<>>]

\* a returned value or a raised error; seq and body are what an error message names
Outcome(kind, val, s, body) == [kind |-> kind, val |-> val, seq |-> s, body |-> body]
Returned(val) == Outcome("return", val, 0, <<>>)
ReturnedNone == Outcome("None", <<>>, 0, <<>>)
Raised(kind) == Outcome(kind, <<>>, 0, <<>>)

\* no command in progress
NoCommand ==
  /\ cmd = "none"
  /\ opt = <<>>
  /\ stmt = "idle"
  /\ raising = "none"
  /\ todo = <<>>
  /\ issued = <<>>
  /\ test_cases = <<>>
  /\ results = <<>>
  /\ exit_code = -1

\* a client just constructed
InitClient ==
  /\ dev \in {"radio", "amp"}
  /\ pc = "idle"
  /\ call = NoCall
  /\ ret = NoOutcome
  /\ sock = 0
  /\ seq = 0
  /\ rxbuf = <<>>
  /\ connected = FALSE
  /\ last_band_persistence = None
  /\ amp_sock = 0
  /\ tx_id = 0
  /\ firmware_version = None
  /\ used = FALSE
  /\ leaked = FALSE
  /\ wire = <<>>
  /\ inflight = <<>>
  /\ peerClosed = FALSE
  /\ peerSent = 0
  /\ answered = 0
  /\ werr = FALSE
  /\ hmatch = <<>>
  /\ hother = FALSE
  /\ hstray = FALSE
  /\ hpers = None
  /\ received = <<>>
  /\ delivered = <<>>
  /\ NoCommand

\* a client just constructed, under the reference-counting interpreter
Init ==
  /\ InitClient
  /\ gc = "refcount"

\* ------------------------------------------------------------------- peer
Reply(n) == <<"R">> \o Str(n) \o <<BAR>>
PersistLine(v) == <<PKEY, v>>
\* what the peer may send: replies to sequence 1, 2 and 12, a status line,
\* and lines carrying the persistence field
PeerLines ==
  {Reply(1), Reply(2), Reply(12), <<"S">>, PersistLine("1"), PersistLine("0")}

CurrentSock == IF dev = "radio" THEN sock ELSE amp_sock

\* the reply that answers a frame: "R", the frame's number, a bar
OwnReply(frame) == <<"R">> \o SubSeq(frame, 2, Find(frame, BAR))

\* answered, once the peer has sent line l: a line that is no reply leaves
\* it alone, the own reply of a frame written after the last answered one
\* moves it there, another reply breaks the order
Answering(l) ==
  IF ~StartsWith(l, <<"R">>) THEN answered
  ELSE IF answered >= 0 /\ \E j \in (answered + 1)..Len(wire) : l = OwnReply(wire[j])
       THEN CHOOSE j \in (answered + 1)..Len(wire) : l = OwnReply(wire[j])
       ELSE -1

\* the peer writes one line on the open stream
PeerSend ==
  /\ CurrentSock # 0
  /\ ~peerClosed
  /\ peerSent < MaxPeerLines
  /\ \E l \in PeerLines :
       /\ inflight' = inflight \o l \o <<NL>>
       /\ answered' = Answering(l)
  /\ peerSent' = peerSent + 1
  /\ UNCHANGED <<dev, gc, appVars, pc, call, ret, radioVars, ampVars, used, leaked, wire,
                 peerClosed, werr, monVars>>

\* the peer writes a status line, or the reply to the last frame written
PeerAnswers ==
  /\ CurrentSock # 0
  /\ ~peerClosed
  /\ peerSent < MaxPeerLines
  /\ \E l \in {<<"S">>} \cup {OwnReply(wire[j]) : j \in {Len(wire)} \ {0}} :
       /\ inflight' = inflight \o l \o <<NL>>
       /\ answered' = Answering(l)
  /\ peerSent' = peerSent + 1
  /\ UNCHANGED <<dev, gc, appVars, pc, call, ret, radioVars, ampVars, used, leaked, wire,
                 peerClosed, werr, monVars>>

\* a peer that never stops: whenever the client has taken all it sent, it
\* writes another line (peerSent counts these up to MaxPeerLines)
PeerFlood ==
  /\ CurrentSock # 0
  /\ ~peerClosed
  /\ inflight = <<>>
  /\ \E l \in PeerLines :
       /\ inflight' = l \o <<NL>>
       /\ answered' = Answering(l)
  /\ peerSent' = IF peerSent < MaxPeerLines THEN peerSent + 1 ELSE peerSent
  /\ UNCHANGED <<dev, gc, appVars, pc, call, ret, radioVars, ampVars, used, leaked, wire,
                 peerClosed, werr, monVars>>

\* the peer closes its end
PeerClose ==
  /\ CurrentSock # 0
  /\ ~peerClosed
  /\ peerClosed' = TRUE
  /\ UNCHANGED <<dev, gc, appVars, pc, call, ret, radioVars, ampVars, used, leaked, wire,
                 inflight, peerSent, answered, werr, monVars>>

\* socket.create_connection succeeded: a new stream, nothing sent on it yet.
\* The socket the client referred to until now is not closed by connect:
\* with nothing referring to it, the interpreter closes it at once
\* (reference counting) or leaves it open until some later collection
OpenSocket ==
  /\ used' = TRUE
  /\ leaked' = (leaked \/ (CurrentSock # 0 /\ gc = "deferred"))
  /\ wire' = <<>>
  /\ inflight' = <<>>
  /\ peerClosed' = FALSE
  /\ peerSent' = 0
  /\ answered' = 0
  /\ werr' = FALSE

\* socket.close() on the referenced socket
CloseSocket ==
  /\ inflight' = <<>>
  /\ UNCHANGED <<used, leaked, wire, peerClosed, peerSent, answered, werr>>

\* the amounts of text one recv may return: nothing when nothing has
\* arrived, otherwise any non-empty prefix of what has
RecvSizes == IF inflight = <<>> THEN {0} ELSE 1..Len(inflight)

\* whether a sendall may succeed, may raise: it raises on a broken socket,
\* and may raise once the peer has closed
SendallOutcomes == IF werr THEN {FALSE} ELSE IF peerClosed THEN BOOLEAN ELSE {TRUE}

\* "C<seq>|<body>" and its terminator
Frame(s, body, term) == <<"C">> \o Str(s) \o <<BAR>> \o body \o term

\* ------------------------------------------------------------- observers
\* the reply prefix of sequence s, as the wire protocol writes it
ReplyPrefix(s) == <<"R">> \o Str(s) \o <<BAR>>

\* the persistence value a line carries: "True" for 1, true, True, "False"
\* for another value, "None" when it has no field or no value
FieldValue(line) ==
  LET at == Find(line, PKEY)
      tok == IF at = 0 THEN <<>> ELSE FirstToken(SubSeq(line, at + 1, Len(line)))
  IN IF tok = <<>> THEN None
     ELSE IF tok \in {<<"1">>, <<"t", "r", "u", "e">>, <<"T", "r", "u", "e">>}
          THEN "True" ELSE "False"

RECURSIVE LastField(_, _)
LastField(cur, lines) ==
  IF lines = <<>> THEN cur
  ELSE LastField(IF FieldValue(Head(lines)) = None THEN cur ELSE FieldValue(Head(lines)),
                 Tail(lines))

\* index of the first line with the prefix, Len + 1 when there is none
FirstWith(lines, prefix) ==
  IF \E i \in 1..Len(lines) : StartsWith(lines[i], prefix)
  THEN CHOOSE i \in 1..Len(lines) :
         StartsWith(lines[i], prefix) /\ \A j \in 1..(i - 1) : ~StartsWith(lines[j], prefix)
  ELSE Len(lines) + 1

\* the line is a reply, "R<number>|...", to another sequence number than s
IsStrayReply(line, s) ==
  LET bar == Find(line, BAR)
      field == IntParse(SubSeq(line, 2, bar - 1))
  IN /\ StartsWith(line, <<"R">>)
     /\ bar > 0
     /\ field.ok
     /\ field.val # s

\* the lines a reply wait for sequence s has just received
ObserveWait(lines, s) ==
  \E i \in {FirstWith(lines, ReplyPrefix(s))} :
    \E before \in {SubSeq(lines, 1, i - 1)} :
      /\ hmatch' = IF i <= Len(lines) THEN lines[i] ELSE <<>>
      /\ hother' = (hother \/ before # <<>>)
      /\ hstray' = (hstray \/ \E j \in 1..Len(before) : IsStrayReply(before[j], s))
      /\ hpers' = LastField(hpers, before)
      /\ UNCHANGED <<received, delivered>>

\* the lines a scanning read of connect has just received
ObserveScan(lines) ==
  /\ hpers' = LastField(hpers, lines)
  /\ UNCHANGED <<hmatch, hother, hstray, received, delivered>>

ObserveReset ==
  /\ hmatch' = <<>>
  /\ hother' = FALSE
  /\ hstray' = FALSE
  /\ hpers' = None
  /\ UNCHANGED <<received, delivered>>

\* ------------------------------------------------------------ FlexRadio
\* FlexRadio._read_lines with a recv that returns the first k symbols in
\* flight (k = 0: recv timed out, or returned nothing because the peer closed)
ReadLines(k) ==
  IF sock = 0 \/ (k = 0 /\ peerClosed)
  THEN [lines |-> <<>>, buf |-> rxbuf]
  ELSE LET b == rxbuf \o Decode(SubSeq(inflight, 1, k))
       IN [lines |-> SplitLines(b), buf |-> Remainder(b)]

\* the complete lines the stream holds once the first k symbols in flight
\* have joined the pending fragment
LinesArrived(k) == SplitLines(rxbuf \o SubSeq(inflight, 1, k))

\* a scanner that takes a field without a value for false
NoTokenIsFalse(line) ==
  IF \E i \in 1..Len(line) : line[i] = PKEY
  THEN LET val == FirstToken(SubSeq(line, Find(line, PKEY) + 1, Len(line)))
       IN IF val \in {<<"1">>, <<"t", "r", "u", "e">>, <<"T", "r", "u", "e">>}
          THEN "True" ELSE "False"
  ELSE None

\* flex.py 120-125: what one line does to the cache ("None": nothing)
PersistenceOf(line) ==
  IF \E i \in 1..Len(line) : line[i] = PKEY
  THEN LET val == FirstToken(SubSeq(line, Find(line, PKEY) + 1, Len(line)))
       IN IF val = <<>> THEN None
          ELSE IF val \in {<<"1">>, <<"t", "r", "u", "e">>, <<"T", "r", "u", "e">>}
               THEN "True" ELSE "False"
  ELSE None

\* a scan that stops at the first line carrying the field
ScanFirstOnly(cache, lines) ==
  LET hits == SelectSeq(lines, LAMBDA l : PersistenceOf(l) # None)
  IN IF hits = <<>> THEN cache ELSE PersistenceOf(Head(hits))

\* FlexRadio._scan_for_band_persistence: the cache after scanning lines
RECURSIVE ScanForBandPersistence(_, _)
ScanForBandPersistence(cache, lines) ==
  IF lines = <<>> THEN cache
  ELSE LET v == PersistenceOf(Head(lines))
       IN ScanForBandPersistence(IF v = None THEN cache ELSE v, Tail(lines))

\* FlexRadio.get_band_persistence_cached
get_band_persistence_cached == last_band_persistence

\* a prefix that leaves out the bar closing the number
WantNoBar(s) == <<"R">> \o Str(s)

\* flex.py 88: the reply prefix a send waits for
Want(s) == <<"R">> \o Str(s) \o <<BAR>>

\* a wait that takes the first reply line, whatever its number
FirstReply(lines, want) ==
  LET hits == SelectSeq(lines, LAMBDA l : StartsWith(l, <<"R">>))
  IN IF hits = <<>> THEN <<>> ELSE Head(hits)

\* flex.py 91-93, 96-98: the first line that starts with the wanted prefix,
\* <<>> if none
FirstMatch(lines, want) ==
  LET hits == SelectSeq(lines, LAMBDA l : StartsWith(l, want))
  IN IF hits = <<>> THEN <<>> ELSE Head(hits)

\* a send that does not look at the connection state
NoGuard == TRUE

\* the guard of FlexRadio._send_counted
RadioIsConnected == connected /\ sock # 0

\* a send that waits for a reply whatever expect_response says
NeverAtOnce(expect) == FALSE

\* flex.py 85: expect_response is false, return at once
ReturnsAtOnce(expect) == ~expect

\* an end of _send_counted that hands every outcome to the caller
SendEndsPropagates(r) ==
  /\ pc' = "done"
  /\ ret' = r

\* a _send_counted on the radio ends with outcome r: inside connect the
\* outcome is dropped and connect goes on to its brief read; inside
\* set_frequency_mhz the first send is followed by the second, and the
\* reply to the second is dropped
RadioSendEnds(r) ==
  IF call.op = "connect"
  THEN /\ pc' = "postsub"
       /\ ret' = ret
  ELSE IF pc = "set_frequency" /\ r = ReturnedNone
  THEN /\ pc' = "set_frequency_2"
       /\ ret' = ret
  ELSE IF call.op \in {"set_band", "set_frequency_mhz", "set_mode"} /\ r.kind = "return"
  THEN /\ pc' = "done"
       /\ ret' = ReturnedNone
  ELSE /\ pc' = "done"
       /\ ret' = r

\* FlexRadio._send_counted up to its first read: the guard, the counter,
\* the frame; wok is whether sendall succeeds.  Sets pc, ret, seq, wire,
\* werr and call (c: the call with the arguments of this send).
RadioSendStart(c, wok) ==
  IF ~RadioIsConnected
  THEN /\ call' = c
       /\ RadioSendEnds(Raised("NotConnected"))
       /\ UNCHANGED <<seq, wire, werr>>
  ELSE /\ seq' = seq + 1
       /\ call' = [c EXCEPT !.seq = seq + 1]
       /\ IF ~wok
          THEN /\ werr' = TRUE
               /\ wire' = wire
               /\ RadioSendEnds(Raised("OSError"))
          ELSE /\ werr' = werr
               /\ wire' = Append(wire, Frame(seq + 1, c.body, <<NL>>))
               /\ IF ReturnsAtOnce(c.expect)
                  THEN RadioSendEnds(ReturnedNone)
                  ELSE /\ pc' = "send_first"
                       /\ ret' = ret

\* one _read_lines inside the reply wait; a matching line ends the send
RadioSendRead(k) ==
  LET r == ReadLines(k)
      m == FirstMatch(r.lines, Want(call.seq))
  IN /\ rxbuf' = r.buf
     /\ inflight' = SubSeq(inflight, k + 1, Len(inflight))
     /\ IF call.op = "connect" THEN UNCHANGED monVars
        ELSE \E lines \in {LinesArrived(k)} : ObserveWait(lines, call.seq)
     /\ IF m # <<>>
        THEN RadioSendEnds(Returned(m))
        ELSE /\ pc' = "send_wait"
             /\ ret' = ret
     /\ UNCHANGED <<dev, gc, appVars, call, sock, seq, connected, last_band_persistence, ampVars,
                    used, leaked, wire, peerClosed, peerSent, answered, werr>>

\* flex.py 91-93: the read before the deadline loop
RadioSendFirstRead ==
  /\ dev = "radio"
  /\ pc = "send_first"
  /\ \E k \in RecvSizes : RadioSendRead(k)

\* flex.py 95-99: one iteration of the deadline loop (the clock is still
\* short of the deadline)
RadioSendPoll ==
  /\ dev = "radio"
  /\ pc = "send_wait"
  /\ \E k \in RecvSizes : RadioSendRead(k)

\* a deadline that writes the frame again and goes on waiting
SendRetries ==
  /\ dev = "radio"
  /\ pc = "send_wait"
  /\ wire' = Append(wire, Frame(call.seq, call.body, <<NL>>))
  /\ UNCHANGED <<dev, gc, appVars, pc, call, ret, radioVars, ampVars, used, leaked, inflight, peerClosed,
                 peerSent, answered, werr, monVars>>

\* flex.py 95, 100: the clock has reached the deadline
RadioSendTimeout ==
  /\ dev = "radio"
  /\ pc = "send_wait"
  /\ RadioSendEnds(Outcome("TimeoutError", <<>>, call.seq, call.body))
  /\ UNCHANGED <<dev, gc, appVars, call, radioVars, ampVars, netVars, monVars>>

\* FlexRadio.connect: create_connection raises
RadioConnectFail ==
  /\ dev = "radio"
  /\ pc = "idle"
  /\ \E sub \in BOOLEAN : call' = Call("connect", <<>>, FALSE, sub)
  /\ ret' = Raised("OSError")
  /\ pc' = "done"
  /\ UNCHANGED <<dev, gc, appVars, radioVars, ampVars, netVars, monVars>>

\* a connect that carries the counter and the buffer over to the new socket
ConnectKeepsCounter ==
  /\ dev = "radio"
  /\ pc = "idle"
  /\ OpenSocket
  /\ \E sub \in BOOLEAN : call' = Call("connect", <<>>, FALSE, sub)
  /\ sock' = 1
  /\ connected' = TRUE
  /\ pc' = "prime"
  /\ UNCHANGED <<dev, gc, appVars, ret, seq, rxbuf, last_band_persistence, ampVars, monVars>>

\* FlexRadio.connect, lines 19-23, entering the priming window
RadioConnectOpen ==
  /\ dev = "radio"
  /\ pc = "idle"
  /\ OpenSocket
  /\ \E sub \in BOOLEAN : call' = Call("connect", <<>>, FALSE, sub)
  /\ sock' = 1
  /\ seq' = 0
  /\ rxbuf' = <<>>
  /\ connected' = TRUE
  /\ pc' = "prime"
  /\ UNCHANGED <<dev, gc, appVars, ret, last_band_persistence, ampVars, monVars>>

\* one _read_lines whose lines are scanned for the persistence field
RadioScanRead(k) ==
  LET r == ReadLines(k)
  IN /\ rxbuf' = r.buf
     /\ inflight' = SubSeq(inflight, k + 1, Len(inflight))
     /\ ObserveScan(LinesArrived(k))
     /\ last_band_persistence' = ScanForBandPersistence(last_band_persistence, r.lines)

\* FlexRadio._prime_after_connect: one iteration of the priming loop
RadioPrimePoll ==
  /\ dev = "radio"
  /\ pc = "prime"
  /\ \E k \in RecvSizes : RadioScanRead(k)
  /\ UNCHANGED <<dev, gc, appVars, pc, call, ret, sock, seq, connected, ampVars, used, leaked,
                 wire, peerClosed, peerSent, answered, werr>>

\* a priming loop that looks at the clock only after a read that gave nothing
PrimeDoneWhenQuiet ==
  /\ dev = "radio"
  /\ pc = "prime"
  /\ inflight = <<>>
  /\ IF call.subscribe
     THEN \E wok \in SendallOutcomes :
            RadioSendStart([call EXCEPT !.body = <<"sub radio all">>, !.expect = TRUE], wok)
     ELSE /\ pc' = "done"
          /\ ret' = ReturnedNone
          /\ UNCHANGED <<call, seq, wire, werr>>
  /\ UNCHANGED <<dev, gc, appVars, sock, rxbuf, connected, last_band_persistence, ampVars, used, leaked, inflight, peerClosed, peerSent, answered, monVars>>

\* the clock has reached the priming deadline: connect returns, or sends
\* its subscribe
RadioPrimeDone ==
  /\ dev = "radio"
  /\ pc = "prime"
  /\ IF call.subscribe
     THEN \E wok \in SendallOutcomes :
            RadioSendStart([call EXCEPT !.body = <<"sub radio all">>, !.expect = TRUE], wok)
     ELSE /\ pc' = "done"
          /\ ret' = ReturnedNone
          /\ UNCHANGED <<call, seq, wire, werr>>
  /\ UNCHANGED <<dev, gc, appVars, sock, rxbuf, connected, last_band_persistence, ampVars, used, leaked, inflight, peerClosed, peerSent, answered, monVars>>

\* flex.py 31-34: one iteration of the brief read after the subscribe
RadioPostSubPoll ==
  /\ dev = "radio"
  /\ pc = "postsub"
  /\ \E k \in RecvSizes : RadioScanRead(k)
  /\ UNCHANGED <<dev, gc, appVars, pc, call, ret, sock, seq, connected, ampVars, used, leaked,
                 wire, peerClosed, peerSent, answered, werr>>

\* the brief read is over: connect returns
RadioPostSubDone ==
  /\ dev = "radio"
  /\ pc = "postsub"
  /\ pc' = "done"
  /\ ret' = ReturnedNone
  /\ UNCHANGED <<dev, gc, appVars, call, radioVars, ampVars, netVars, monVars>>

\* a disconnect that leaves the pending fragment in the buffer
DisconnectKeepsBuffer ==
  /\ dev = "radio"
  /\ pc = "idle"
  /\ call' = Call("disconnect", <<>>, FALSE, FALSE)
  /\ IF sock # 0
     THEN CloseSocket
     ELSE UNCHANGED netVars
  /\ sock' = 0
  /\ connected' = FALSE
  /\ ret' = ReturnedNone
  /\ pc' = "done"
  /\ UNCHANGED <<dev, gc, appVars, seq, rxbuf, last_band_persistence, ampVars, monVars>>

\* the bytes the peer of the framer writes
StreamBytes == {"a", " ", NL, LEAD, CONT}
\* bytes written on one connection
MaxStream == 4

\* the peer writes one more byte on the open stream
PeerByte ==
  /\ sock # 0
  /\ ~peerClosed
  /\ Len(received) + Len(inflight) < MaxStream
  /\ \E b \in StreamBytes : inflight' = Append(inflight, b)
  /\ UNCHANGED <<dev, gc, appVars, pc, call, ret, radioVars, ampVars, used, leaked, wire,
                 peerClosed, peerSent, answered, werr, monVars>>

\* one call of FlexRadio._read_lines, its lines handed to the caller
RadioReadLines ==
  /\ dev = "radio"
  /\ pc = "idle"
  /\ \E k \in RecvSizes :
       \E r \in {ReadLines(k)} :
         /\ rxbuf' = r.buf
         /\ inflight' = SubSeq(inflight, k + 1, Len(inflight))
         /\ received' = received \o SubSeq(inflight, 1, k)
         /\ delivered' = delivered \o r.lines
         /\ ret' = Returned(r.lines)
         /\ call' = [Call("read_lines", <<>>, FALSE, FALSE) EXCEPT !.arg = k]
  /\ pc' = "done"
  /\ UNCHANGED <<dev, gc, appVars, sock, seq, connected, last_band_persistence, ampVars, used, leaked,
                 wire, peerClosed, peerSent, answered, werr, hmatch, hother, hstray, hpers>>

\* FlexRadio.disconnect
RadioDisconnect ==
  /\ dev = "radio"
  /\ pc = "idle"
  /\ call' = Call("disconnect", <<>>, FALSE, FALSE)
  /\ IF sock # 0
     THEN CloseSocket
     ELSE UNCHANGED netVars
  /\ sock' = 0
  /\ connected' = FALSE
  /\ rxbuf' = <<>>
  /\ ret' = ReturnedNone
  /\ pc' = "done"
  /\ UNCHANGED <<dev, gc, appVars, seq, last_band_persistence, ampVars, monVars>>

\* FlexRadio.key_carrier_on(wait_ack): _send_counted("transmit tune on", wait_ack)
RadioKeyCarrierOn ==
  /\ dev = "radio"
  /\ pc = "idle"
  /\ (RadioIsConnected => seq < MaxSeq)
  /\ \E wait_ack \in BOOLEAN, wok \in SendallOutcomes :
       RadioSendStart(Call("key_carrier_on", <<"transmit tune on">>, wait_ack, FALSE), wok)
  /\ UNCHANGED <<dev, gc, appVars, sock, rxbuf, connected, last_band_persistence, ampVars, used, leaked, inflight, peerClosed, peerSent, answered, monVars>>

\* the command body of set_band_persistence
BandPersistenceBody(enabled) ==
  <<"radio set band_persistence_enabled=">> \o (IF enabled THEN Str(1) ELSE Str(0))

\* FlexRadio.set_band_persistence(enabled): a fire-and-forget send, then the
\* cache takes the argument (not when the send raised)
RadioSetBandPersistence ==
  /\ dev = "radio"
  /\ pc = "idle"
  /\ (RadioIsConnected => seq < MaxSeq)
  /\ \E enabled \in BOOLEAN, wok \in SendallOutcomes :
       /\ RadioSendStart(Call("set_band_persistence", BandPersistenceBody(enabled),
                              FALSE, FALSE), wok)
       /\ last_band_persistence' =
            IF ret'.kind = "None"
            THEN (IF enabled THEN "True" ELSE "False")
            ELSE last_band_persistence
  /\ UNCHANGED <<dev, gc, appVars, sock, rxbuf, connected, ampVars, used, leaked, inflight,
                 peerClosed, peerSent, answered, monVars>>

\* ---------------------------------------------------- FlexRadio setters
\* FlexRadio._band_center_mhz: the table of band centers, in kHz
BandCenters ==
  [b \in {160, 80, 60, 40, 30, 20, 17, 15, 12, 10, 6} |->
     CASE b = 160 -> 1900 [] b = 80 -> 3750 [] b = 60 -> 5358 [] b = 40 -> 7150
       [] b = 30 -> 10125 [] b = 20 -> 14175 [] b = 17 -> 18118 [] b = 15 -> 21225
       [] b = 12 -> 24940 [] b = 10 -> 28850 [] b = 6 -> 50500]

\* a lookup that accepts every band
AnyBandListed(band_m) == TRUE

\* flex.py 113: band_m is a key of the table
BandListed(band_m) == band_m \in DOMAIN BandCenters

\* FlexRadio._mhz: f"{f:.6f}" of a frequency given in kHz
Mhz(khz) ==
  LET frac == khz % 1000
  IN Str(khz \div 1000) \o <<".">>
       \o Str(frac \div 100) \o Str((frac \div 10) % 10) \o Str(frac % 10)
       \o <<"0", "0", "0">>

\* the bands and percentages the caller passes
BandInputs == {20, 6, 11}
PctInputs == {-5, 0, 37, 100, 150}

\* FlexRadio.set_band, line 145: the table lookup, before anything is sent
RadioSetBand ==
  /\ dev = "radio"
  /\ pc = "idle"
  /\ (RadioIsConnected => seq + 1 < MaxSeq)
  /\ \E band_m \in BandInputs :
       /\ call' = [Call("set_band", <<>>, FALSE, FALSE) EXCEPT !.arg = band_m]
       /\ IF BandListed(band_m)
          THEN /\ pc' = "set_frequency"
               /\ ret' = ret
          ELSE /\ pc' = "done"
               /\ ret' = Raised("UnsupportedBand")
  /\ UNCHANGED <<dev, gc, appVars, radioVars, ampVars, netVars, monVars>>

\* FlexRadio.set_frequency_mhz, line 141: the fire-and-forget "slice s 0 tx=1"
RadioSetFrequencyTx ==
  /\ dev = "radio"
  /\ pc = "set_frequency"
  /\ \E wok \in SendallOutcomes :
       RadioSendStart([call EXCEPT !.body = <<"slice s 0 tx=1">>, !.expect = FALSE], wok)
  /\ UNCHANGED <<dev, gc, appVars, sock, rxbuf, connected, last_band_persistence, ampVars, used, leaked,
                 inflight, peerClosed, peerSent, answered, monVars>>

\* the frequencies, in kHz, the caller passes to set_frequency_mhz
FreqInputs == {7074, 14200}

\* FlexRadio.set_frequency_mhz called by the caller: nothing is done before
\* its first send
RadioSetFrequencyMhz ==
  /\ dev = "radio"
  /\ pc = "idle"
  /\ (RadioIsConnected => seq + 1 < MaxSeq)
  /\ \E khz \in FreqInputs :
       call' = [Call("set_frequency_mhz", <<>>, FALSE, FALSE) EXCEPT !.arg = khz]
  /\ pc' = "set_frequency"
  /\ UNCHANGED <<dev, gc, appVars, ret, radioVars, ampVars, netVars, monVars>>

\* the frequency of the call in kHz: the argument, or the center of the band
FrequencyOf(c) == IF c.op = "set_band" THEN BandCenters[c.arg] ELSE c.arg

\* a second command that is sent without waiting for its reply
TuneFireAndForget ==
  /\ dev = "radio"
  /\ pc = "set_frequency_2"
  /\ \E wok \in SendallOutcomes :
       RadioSendStart([call EXCEPT !.body = <<"slice t 0 ">> \o Mhz(FrequencyOf(call)),
                                  !.expect = FALSE], wok)
  /\ UNCHANGED <<dev, gc, appVars, sock, rxbuf, connected, last_band_persistence, ampVars, used, leaked,
                 inflight, peerClosed, peerSent, answered, monVars>>

\* FlexRadio.set_frequency_mhz, line 142: "slice t 0 <f>", awaiting its reply
RadioSetFrequencyTune ==
  /\ dev = "radio"
  /\ pc = "set_frequency_2"
  /\ \E wok \in SendallOutcomes :
       RadioSendStart([call EXCEPT !.body = <<"slice t 0 ">> \o Mhz(FrequencyOf(call)),
                                  !.expect = TRUE], wok)
  /\ UNCHANGED <<dev, gc, appVars, sock, rxbuf, connected, last_band_persistence, ampVars, used, leaked,
                 inflight, peerClosed, peerSent, answered, monVars>>

\* a setter that passes its argument on as it is
NoClamp(pct) == pct

\* flex.py 149, 153: int(max(0, min(100, pct)))
ClampPct(pct) ==
  LET low == IF 100 < pct THEN 100 ELSE pct
  IN IF 0 > low THEN 0 ELSE low

\* FlexRadio.set_rf_power_pct
RadioSetRfPowerPct ==
  /\ dev = "radio"
  /\ pc = "idle"
  /\ (RadioIsConnected => seq < MaxSeq)
  /\ \E pct \in PctInputs, wok \in SendallOutcomes :
       RadioSendStart([Call("set_rf_power_pct",
                            <<"transmit set rfpower=">> \o Str(ClampPct(pct)),
                            FALSE, FALSE) EXCEPT !.arg = pct], wok)
  /\ UNCHANGED <<dev, gc, appVars, sock, rxbuf, connected, last_band_persistence, ampVars, used, leaked,
                 inflight, peerClosed, peerSent, answered, monVars>>

\* FlexRadio.set_tune_power_pct
RadioSetTunePowerPct ==
  /\ dev = "radio"
  /\ pc = "idle"
  /\ (RadioIsConnected => seq < MaxSeq)
  /\ \E pct \in PctInputs, wok \in SendallOutcomes :
       RadioSendStart([Call("set_tune_power_pct",
                            <<"transmit set tunepower=">> \o Str(ClampPct(pct)),
                            FALSE, FALSE) EXCEPT !.arg = pct], wok)
  /\ UNCHANGED <<dev, gc, appVars, sock, rxbuf, connected, last_band_persistence, ampVars, used, leaked,
                 inflight, peerClosed, peerSent, answered, monVars>>

\* the mode strings the caller passes to FlexRadio.set_mode
RadioModeInputs == {<<"u", "s", "b">>, <<" ", "C", "W", " ">>, <<"b", "o", "g", "u", "s">>, <<>>}

\* FlexRadio.set_mode: the mode is stripped and upper-cased, then sent and
\* its reply awaited
RadioSetMode ==
  /\ dev = "radio"
  /\ pc = "idle"
  /\ (RadioIsConnected => seq < MaxSeq)
  /\ \E mode \in RadioModeInputs, wok \in SendallOutcomes :
       RadioSendStart([Call("set_mode", <<"slice s 0 mode=">> \o Upper(Strip(mode)),
                            TRUE, FALSE) EXCEPT !.mode = mode], wok)
  /\ UNCHANGED <<dev, gc, appVars, sock, rxbuf, connected, last_band_persistence, ampVars, used, leaked,
                 inflight, peerClosed, peerSent, answered, monVars>>

\* ----------------------------------------------------------------- PGXL
\* PGXL.connect: create_connection raises
AmpConnectFail ==
  /\ dev = "amp"
  /\ pc = "idle"
  /\ call' = Call("connect", <<>>, FALSE, FALSE)
  /\ ret' = Raised("OSError")
  /\ pc' = "done"
  /\ UNCHANGED <<dev, gc, appVars, radioVars, ampVars, netVars, monVars>>

\* PGXL.connect, line 17: the socket is stored, the banner read begins
AmpConnectOpen ==
  /\ dev = "amp"
  /\ pc = "idle"
  /\ OpenSocket
  /\ call' = Call("connect", <<>>, FALSE, FALSE)
  /\ amp_sock' = 1
  /\ pc' = "banner"
  /\ UNCHANGED <<dev, gc, appVars, ret, radioVars, tx_id, firmware_version, monVars>>

\* PGXL._recv_line: what one recv gives, stripped; recv raises when nothing
\* arrives before the socket's timeout, and returns nothing once the peer
\* has closed
RecvLine(k) ==
  IF k = 0 /\ ~peerClosed
  THEN [raised |-> TRUE, data |-> <<>>]
  ELSE [raised |-> FALSE, data |-> Strip(SubSeq(inflight, 1, k))]

\* PGXL.connect, lines 18-20: the banner read and what follows it
AmpBanner ==
  /\ dev = "amp"
  /\ pc = "banner"
  /\ \E k \in RecvSizes :
       LET r == RecvLine(k)
       IN /\ inflight' = SubSeq(inflight, k + 1, Len(inflight))
          /\ IF r.raised
             THEN /\ ret' = Raised("socket.timeout")
                  /\ UNCHANGED <<firmware_version, tx_id>>
             ELSE /\ ret' = ReturnedNone
                  /\ firmware_version' = IF r.data = <<>> THEN None ELSE "banner"
                  /\ tx_id' = 0
  /\ pc' = "done"
  /\ UNCHANGED <<dev, gc, appVars, call, radioVars, amp_sock, used, leaked, wire, peerClosed,
                 peerSent, answered, werr, monVars>>

\* PGXL.disconnect
AmpDisconnect ==
  /\ dev = "amp"
  /\ pc = "idle"
  /\ call' = Call("disconnect", <<>>, FALSE, FALSE)
  /\ IF amp_sock # 0
     THEN CloseSocket
     ELSE UNCHANGED netVars
  /\ amp_sock' = 0
  /\ ret' = ReturnedNone
  /\ pc' = "done"
  /\ UNCHANGED <<dev, gc, appVars, radioVars, tx_id, firmware_version, monVars>>

\* the guard of PGXL._send_counted
AmpIsConnected == amp_sock # 0

\* PGXL._send_counted, lines 46-50: the guard, the counter, the frame
AmpSendStart(c, wok) ==
  IF ~AmpIsConnected
  THEN /\ call' = c
       /\ ret' = Raised("NotConnected")
       /\ pc' = "done"
       /\ UNCHANGED <<tx_id, wire, werr>>
  ELSE /\ tx_id' = tx_id + 1
       /\ call' = [c EXCEPT !.seq = tx_id + 1]
       /\ IF ~wok
          THEN /\ werr' = TRUE
               /\ ret' = Raised("OSError")
               /\ pc' = "done"
               /\ wire' = wire
          ELSE /\ werr' = werr
               /\ wire' = Append(wire, Frame(tx_id + 1, c.body, <<"\r", NL>>))
               /\ pc' = "amp_reply"
               /\ ret' = ret

\* a check of the reply that does not compare the counter
CheckIgnoresCounter(reply, tx) ==
  IF ~StartsWith(reply, <<"R">>) THEN Raised("Malformed")
  ELSE IF Find(reply, BAR) = 0 THEN Raised("Malformed")
  ELSE IF ~IntParse(SubSeq(reply, 2, Find(reply, BAR) - 1)).ok THEN Raised("Malformed")
  ELSE Returned(reply)

\* PGXL._send_counted, lines 52-65: the checks on the reply
AmpCheckReply(reply, tx) ==
  IF ~StartsWith(reply, <<"R">>) THEN Raised("Malformed")
  ELSE LET bar == Find(reply, BAR)
           echoed == IntParse(SubSeq(reply, 2, bar - 1))
       IN IF bar = 0 THEN Raised("Malformed")
          ELSE IF ~echoed.ok THEN Raised("Malformed")
          ELSE IF echoed.val # tx THEN Outcome("CounterMismatch", <<>>, tx, <<>>)
          ELSE Returned(reply)

\* s.split(): the whitespace-delimited items of a text
RECURSIVE SplitItems(_)
SplitItems(s) ==
  LET t == Strip(s)
      first == FirstToken(t)
  IN IF t = <<>> THEN <<>>
     ELSE <<first>> \o SplitItems(SubSeq(t, Len(first) + 1, Len(t)))

\* a dict that keeps the first value given for a key
KvFirstWins(items) ==
  LET pairs == SelectSeq(items, LAMBDA it : Find(it, "=") > 0)
      KeyOf(it) == SubSeq(it, 1, Find(it, "=") - 1)
      ValOf(it) == SubSeq(it, Find(it, "=") + 1, Len(it))
  IN [k \in {KeyOf(pairs[i]) : i \in 1..Len(pairs)} |->
        ValOf(pairs[CHOOSE i \in 1..Len(pairs) :
                      KeyOf(pairs[i]) = k /\ \A j \in 1..(i - 1) : KeyOf(pairs[j]) # k])]

\* pgxl.py 75-80: the dict built from the items: an item with "=" is split
\* at its first "=", a later item with the same key replaces the earlier
KvOf(items) ==
  LET pairs == SelectSeq(items, LAMBDA it : Find(it, "=") > 0)
      KeyOf(it) == SubSeq(it, 1, Find(it, "=") - 1)
      ValOf(it) == SubSeq(it, Find(it, "=") + 1, Len(it))
  IN [k \in {KeyOf(pairs[i]) : i \in 1..Len(pairs)} |->
        ValOf(pairs[CHOOSE i \in 1..Len(pairs) :
                      KeyOf(pairs[i]) = k /\ \A j \in (i + 1)..Len(pairs) : KeyOf(pairs[j]) # k])]

\* PGXL._parse_keyvals: reply.split("|", 2) must give three parts; the
\* second is the status, the third the key=value blob
ParseKeyvals(reply) ==
  LET b1 == Find(reply, BAR)
      rest == SubSeq(reply, b1 + 1, Len(reply))
      b2 == Find(rest, BAR)
  IN IF b1 = 0 \/ b2 = 0
     THEN [ok |-> FALSE, status |-> <<>>, kv |-> <<>>]
     ELSE [ok |-> TRUE,
           status |-> SubSeq(rest, 1, b2 - 1),
           kv |-> KvOf(SplitItems(Strip(SubSeq(rest, b2 + 1, Len(rest)))))]

\* an absent value (Python None) and a float: m is the number written by the
\* digits with the point removed, d the count of digits after the point
Unknown == [known |-> FALSE, m |-> 0, d |-> 0, text |-> <<>>]
Float(m, d) == [known |-> TRUE, m |-> m, d |-> d, text |-> <<>>]
Text(t) == [known |-> TRUE, m |-> 0, d |-> 0, text |-> t]

\* float(s) for decimal literals: surrounding whitespace, a sign, digits
\* with at most one point, one digit at least (exponents, inf, nan and
\* underscores do not occur in the replies considered)
FloatParse(s) ==
  LET t == Strip(s)
      signed == Len(t) > 0 /\ t[1] \in {"+", "-"}
      b == IF signed THEN SubSeq(t, 2, Len(t)) ELSE t
      pt == Find(b, ".")
      digs == SelectSeq(b, IsDigit)
      wellFormed ==
        /\ Len(digs) > 0
        /\ \A i \in 1..Len(b) : IsDigit(b[i]) \/ i = pt
      RECURSIVE Val(_)
      Val(k) == IF k = 0 THEN 0 ELSE 10 * Val(k - 1) + DigitVal(digs[k])
      mag == Val(Len(digs))
  IN IF wellFormed
     THEN Float(IF signed /\ t[1] = "-" THEN 0 - mag ELSE mag,
                IF pt = 0 THEN 0 ELSE Len(b) - pt)
     ELSE Unknown

\* pgxl.py 113-117: fget(key): float(kv[key]), None on any exception
Fget(kv, key) == IF <<key>> \in DOMAIN kv THEN FloatParse(kv[<<key>>]) ELSE Unknown

\* Python's truth value of an Optional[float]: None and 0.0 are false
Truthy(x) == x.known /\ x.m # 0

\* a or b
PyOr(a, b) == IF Truthy(a) THEN a ELSE b

\* pgxl.py 120-137: the record telemetry returns
TelemetryOf(kv) ==
  [Vd |-> Fget(kv, "vdd"),
   Id |-> Fget(kv, "id"),
   SWR |-> Fget(kv, "swr"),
   PoutW |-> Fget(kv, "fwd"),
   PA_TempC |-> PyOr(Fget(kv, "hltemp"), Fget(kv, "temp")),
   PS_TempC |-> Fget(kv, "temp"),
   Fan |-> IF <<"fanmode">> \in DOMAIN kv THEN Text(kv[<<"fanmode">>]) ELSE Unknown,
   Faults |-> <<>>,
   raw |-> kv]

\* what the method that called _send_counted makes of its outcome: standby
\* drops the reply, get_info and telemetry parse it
AmpCallEnds(op, r) ==
  IF r.kind # "return" THEN r
  ELSE IF op = "get_info"
       THEN (IF ParseKeyvals(r.val).ok THEN Returned(ParseKeyvals(r.val).kv)
             ELSE Raised("UnexpectedFormat"))
  ELSE IF op = "telemetry"
       THEN (IF ParseKeyvals(r.val).ok THEN Returned(TelemetryOf(ParseKeyvals(r.val).kv))
             ELSE Raised("UnexpectedFormat"))
  ELSE r

\* the lines of the text one recv returned, an unterminated last one included
ChunkLines(chunk) == SelectSeq(SplitLines(chunk \o <<NL>>), LAMBDA l : l # <<>>)

\* PGXL._send_counted, line 51 on: the single read of the reply
AmpReply ==
  /\ dev = "amp"
  /\ pc = "amp_reply"
  /\ \E k \in RecvSizes :
       LET r == RecvLine(k)
       IN /\ inflight' = SubSeq(inflight, k + 1, Len(inflight))
          /\ ObserveWait(ChunkLines(SubSeq(inflight, 1, k)), call.seq)
          /\ ret' = IF r.raised THEN Raised("socket.timeout")
                    ELSE AmpCallEnds(call.op, AmpCheckReply(r.data, call.seq))
  /\ pc' = "done"
  /\ UNCHANGED <<dev, gc, appVars, call, radioVars, ampVars, used, leaked, wire, peerClosed,
                 peerSent, answered, werr>>

\* PGXL.standby: _send_counted("operate=0")
AmpStandby ==
  /\ dev = "amp"
  /\ pc = "idle"
  /\ (AmpIsConnected => tx_id < MaxSeq)
  /\ \E wok \in SendallOutcomes : AmpSendStart(Call("standby", <<"operate=0">>, TRUE, FALSE), wok)
  /\ UNCHANGED <<dev, gc, appVars, radioVars, amp_sock, firmware_version, used, leaked, inflight,
                 peerClosed, peerSent, answered, monVars>>

\* PGXL.get_info: _send_counted("info"), then _parse_keyvals
AmpGetInfo ==
  /\ dev = "amp"
  /\ pc = "idle"
  /\ (AmpIsConnected => tx_id < MaxSeq)
  /\ \E wok \in SendallOutcomes : AmpSendStart(Call("get_info", <<"info">>, TRUE, FALSE), wok)
  /\ UNCHANGED <<dev, gc, appVars, radioVars, amp_sock, firmware_version, used, leaked, inflight,
                 peerClosed, peerSent, answered, monVars>>

\* PGXL.telemetry: _send_counted("status"), then _parse_keyvals and fget
AmpTelemetry ==
  /\ dev = "amp"
  /\ pc = "idle"
  /\ (AmpIsConnected => tx_id < MaxSeq)
  /\ \E wok \in SendallOutcomes : AmpSendStart(Call("telemetry", <<"status">>, TRUE, FALSE), wok)
  /\ UNCHANGED <<dev, gc, appVars, radioVars, amp_sock, firmware_version, used, leaked, inflight,
                 peerClosed, peerSent, answered, monVars>>

\* the mode strings the caller passes to PGXL.set_mode
BiasModeInputs ==
  {<<"A", "B">>, <<"a", "a", "b">>, <<" ", "A", "b", "\n">>, <<"A", "A", "B", " ">>,
   <<"A">>, <<>>, <<"A", "B", "B">>, <<"A", " ", "B">>, <<"U", "S", "B">>}

\* a check that lets every mode string through
AnyBiasMode(m) == TRUE

\* pgxl.py 98: m in ("AB", "AAB")
BiasModeAccepted(m) == m \in {<<"A", "B">>, <<"A", "A", "B">>}

\* PGXL.set_mode: the mode is stripped and upper-cased; unless it is AB or
\* AAB a ValueError is raised before _send_counted is called
AmpSetMode ==
  /\ dev = "amp"
  /\ pc = "idle"
  /\ (AmpIsConnected => tx_id < MaxSeq)
  /\ \E mode \in BiasModeInputs :
       LET m == Upper(Strip(mode))
           c == [Call("set_mode", <<"setup biasA=RADIO_">> \o m \o <<" biasB=RADIO_">> \o m,
                      TRUE, FALSE) EXCEPT !.mode = mode]
       IN IF BiasModeAccepted(m)
          THEN \E wok \in SendallOutcomes : AmpSendStart(c, wok)
          ELSE /\ call' = c
               /\ ret' = Raised("ValueError")
               /\ pc' = "done"
               /\ UNCHANGED <<tx_id, wire, werr>>
  /\ UNCHANGED <<dev, gc, appVars, radioVars, amp_sock, firmware_version, used, leaked, inflight,
                 peerClosed, peerSent, answered, monVars>>

\* what follows "R<n>|" in the replies of the status peer
StatusPayloads ==
  {<<"0", BAR, "vdd", "=", "4", "8", ".", "1", " ", "id", "=", "2", ".", "3", " ",
     "fanmode", "=", "AUTO">>,
   <<"0">>,
   <<"0", BAR, "junk", " ", "id", "=", "1", " ", "id", "=", "2", BAR, "x">>,
   <<"0", BAR, "hltemp", "=", "0", " ", "temp", "=", "3", "5">>,
   <<"0", BAR>>}

\* while the client reads and nothing is left unread, the peer writes a
\* banner or status line, or answers the last frame, once, with one of the
\* status payloads
PeerStatus ==
  /\ CurrentSock # 0
  /\ pc \in {"banner", "amp_reply"}
  /\ inflight = <<>>
  /\ ~peerClosed
  /\ peerSent < MaxPeerLines
  /\ \E l \in {<<"S">>} \cup {OwnReply(wire[j]) \o p :
                                j \in {Len(wire)} \ {0, answered}, p \in StatusPayloads} :
       /\ inflight' = inflight \o l \o <<NL>>
       /\ answered' = IF l = <<"S">> THEN answered ELSE Len(wire)
  /\ peerSent' = peerSent + 1
  /\ UNCHANGED <<dev, gc, appVars, pc, call, ret, radioVars, ampVars, used, leaked, wire,
                 peerClosed, werr, monVars>>

\* the forms of a reply line to number n that the reply peer may write: the
\* plain one, the number with a leading zero, with a sign, between blanks,
\* without a bar, no number, nothing for a number, without the "R", a
\* fraction
ReplyForms(n) ==
  {<<"R">> \o Str(n) \o <<BAR>>,
   <<"R", "0">> \o Str(n) \o <<BAR>>,
   <<"R", "+">> \o Str(n) \o <<BAR>>,
   <<"R", "-">> \o Str(n) \o <<BAR>>,
   <<"R", " ">> \o Str(n) \o <<" ", BAR>>,
   <<"R">> \o Str(n),
   <<"R", "x", BAR>>,
   <<"R", BAR>>,
   Str(n) \o <<BAR>>,
   <<"R">> \o Str(n) \o <<".", "0", BAR>>}

\* while the amplifier client reads, the peer writes a line in one of the
\* reply forms, for number 1 or 2
PeerReplies ==
  /\ CurrentSock # 0
  /\ pc \in {"banner", "amp_reply"}
  /\ inflight = <<>>
  /\ ~peerClosed
  /\ peerSent < MaxPeerLines
  /\ \E n \in 1..2 : \E l \in ReplyForms(n) :
       /\ inflight' = inflight \o l \o <<"\r", NL>>
       /\ answered' = Answering(l)
  /\ peerSent' = peerSent + 1
  /\ UNCHANGED <<dev, gc, appVars, pc, call, ret, radioVars, ampVars, used, leaked, wire,
                 peerClosed, werr, monVars>>

\* the lines of the persistence peer: the field with the value 1, 0, true,
\* True, TRUE, with a blank before the value, with no value, given twice,
\* and a line without the field
PersistForms ==
  {<<PKEY, "1">>,
   <<PKEY, "0">>,
   <<PKEY, "t", "r", "u", "e">>,
   <<PKEY, "T", "r", "u", "e">>,
   <<PKEY, "T", "R", "U", "E">>,
   <<PKEY, " ", "1">>,
   <<PKEY>>,
   <<PKEY, "0", " ", PKEY, "1">>,
   <<"S">>}

\* while a connect is in progress, the peer writes one of these lines
PeerPersist ==
  /\ CurrentSock # 0
  /\ pc \notin {"idle", "done"}
  /\ ~peerClosed
  /\ peerSent < MaxPeerLines
  /\ \E l \in PersistForms :
       /\ inflight' = inflight \o l \o <<NL>>
       /\ answered' = Answering(l)
  /\ peerSent' = peerSent + 1
  /\ UNCHANGED <<dev, gc, appVars, pc, call, ret, radioVars, ampVars, used, leaked, wire,
                 peerClosed, werr, monVars>>

\* ------------------------------------------------------------- TestRunner
\* the lists of cases discover() may return, each case given by its id
Discovered == UNION {[1..n -> {"a", "b"}] : n \in 0..MaxCases}

\* what a case does with the result it is handed, and how it ends: it may
\* set failed, set skipped, and returns, raises an Exception, or is
\* interrupted (KeyboardInterrupt is no Exception)
CaseRuns == [failed : {0, 1}, skipped : {0, 1}, ends : {"return", "Exception", "KeyboardInterrupt"}]

\* runner.py 9-16: TestCaseResult(id=tc.id)
TestCaseResult(id) == [id |-> id, passed |-> 0, failed |-> 0, skipped |-> 0, logs |-> <<>>]

\* the result after the case has run as b says; a case that returns has
\* appended its closing log line
CaseWrites(res, b) ==
  [res EXCEPT !.failed = b.failed,
              !.skipped = b.skipped,
              !.logs = IF b.ends = "return" THEN Append(@, "case log") ELSE @]

\* a verdict that does not look at skipped
VerdictIgnoresSkipped(res) == IF res.failed = 0 THEN [res EXCEPT !.passed = 1] ELSE res

\* runner.py 50-51
Verdict(res) == IF res.failed = 0 /\ res.skipped = 0 THEN [res EXCEPT !.passed = 1] ELSE res

\* a handler that catches nothing
CatchesNothing(kind) == FALSE

\* runner.py 52: except Exception
Caught(kind) == kind = "Exception"

\* runner.py 53-54
Recorded(res) == [res EXCEPT !.failed = 1, !.logs = Append(@, "Error")]

\* runner.py 25: SuiteResult.failed
RECURSIVE SuiteFailed(_)
SuiteFailed(cases) ==
  IF cases = <<>> THEN 0 ELSE Head(cases).failed + SuiteFailed(Tail(cases))

\* cli.py 22-31 and runner.py 43-45: the run command loads the suite and
\* discovers its cases
RunStart ==
  /\ cmd = "none"
  /\ pc = "idle"
  /\ cmd' = "run"
  /\ \E l \in BOOLEAN : opt' = [list_tests |-> l]
  /\ test_cases' \in Discovered
  /\ results' = <<>>
  /\ stmt' = IF opt'.list_tests THEN "list" ELSE "for"
  /\ UNCHANGED <<dev, gc, pc, call, ret, radioVars, ampVars, netVars, monVars,
                 raising, todo, issued, exit_code>>

\* cli.py 25-29: --list prints the ids and exits
RunList ==
  /\ cmd = "run"
  /\ stmt = "list"
  /\ stmt' = "exit"
  /\ exit_code' = 0
  /\ UNCHANGED <<dev, gc, pc, call, ret, radioVars, ampVars, netVars, monVars,
                 cmd, opt, raising, todo, issued, test_cases, results>>

\* runner.py 46-55: one iteration of the loop over the cases
RunCase ==
  /\ cmd = "run"
  /\ stmt = "for"
  /\ Len(results) < Len(test_cases)
  /\ \E b \in CaseRuns :
       LET tc == test_cases[Len(results) + 1]
           res == CaseWrites(TestCaseResult(tc), b)
       IN /\ issued' = Append(issued, [dev |-> "case", op |-> tc, did |-> b])
          /\ IF b.ends = "return"
             THEN /\ results' = Append(results, Verdict(res))
                  /\ UNCHANGED <<stmt, raising, exit_code>>
             ELSE IF Caught(b.ends)
             THEN /\ results' = Append(results, Recorded(res))
                  /\ UNCHANGED <<stmt, raising, exit_code>>
             ELSE /\ raising' = b.ends
                  /\ stmt' = "exit"
                  /\ exit_code' = 1
                  /\ results' = results
  /\ UNCHANGED <<dev, gc, pc, call, ret, radioVars, ampVars, netVars, monVars,
                 cmd, opt, todo, test_cases>>

\* runner.py 56 and cli.py 32-36: the suite result is reported and the
\* command exits
RunReport ==
  /\ cmd = "run"
  /\ stmt = "for"
  /\ Len(results) = Len(test_cases)
  /\ stmt' = "exit"
  /\ exit_code' = IF SuiteFailed(results) = 0 THEN 0 ELSE 1
  /\ UNCHANGED <<dev, gc, pc, call, ret, radioVars, ampVars, netVars, monVars,
                 cmd, opt, raising, todo, issued, test_cases, results>>

\* ---------------------------------------------------------- device calls
\* a call a command makes on a device, and what it comes to: kind is
\* "return" or the error raised, wrote whether its command (for a method
\* that sends two, the first) went on the wire
DeviceCall(d, op) == [dev |-> d, op |-> op]
CallOutcome(kind, wrote) == [kind |-> kind, wrote |-> wrote]

\* FlexRadio._send_counted on a connected radio: sendall raises, or the
\* frame is written and the send returns, or (a reply being expected) the
\* wait ends in TimeoutError
RadioSendOutcomes(expect) ==
  {CallOutcome("OSError", FALSE), CallOutcome("return", TRUE)}
    \cup (IF expect THEN {CallOutcome("TimeoutError", TRUE)} ELSE {})

\* a method that makes a fire-and-forget send and then another send: the
\* first raises, or it is written and the call comes to what the second does
TwoSends(expect) ==
  {CallOutcome("OSError", FALSE)}
    \cup {CallOutcome(o.kind, TRUE) : o \in RadioSendOutcomes(expect)}

\* PGXL._send_counted on a connected amplifier: sendall raises, or the
\* frame is written and the single read of the reply raises, is refused by
\* the checks, or is returned
AmpSendOutcomes ==
  {CallOutcome("OSError", FALSE), CallOutcome("socket.timeout", TRUE),
   CallOutcome("Malformed", TRUE), CallOutcome("CounterMismatch", TRUE),
   CallOutcome("return", TRUE)}

\* the outcomes of the methods the commands call
MethodOutcomes(c) ==
  IF c.dev = "radio"
  THEN CASE c.op = "connect" -> {CallOutcome("OSError", FALSE), CallOutcome("return", FALSE)}
         [] c.op = "disconnect" -> {CallOutcome("return", FALSE)}
         [] c.op \in {"set_mode", "key_carrier_on", "key_carrier_off"} -> RadioSendOutcomes(TRUE)
         [] c.op \in {"set_rf_power_pct", "set_tune_power_pct", "set_two_tone",
                      "set_band_persistence"} -> RadioSendOutcomes(FALSE)
         [] c.op = "set_frequency_mhz" -> TwoSends(TRUE)
         [] c.op = "set_band" -> {CallOutcome("ValueError", FALSE)} \cup TwoSends(TRUE)
         [] c.op = "set_drive_w" -> TwoSends(FALSE)
  ELSE IF c.dev = "amp"
  THEN CASE c.op = "connect" -> {CallOutcome("OSError", FALSE), CallOutcome("socket.timeout", FALSE),
                                 CallOutcome("return", FALSE)}
         [] c.op = "disconnect" -> {CallOutcome("return", FALSE)}
         [] c.op \in {"operate", "standby"} -> AmpSendOutcomes
         [] c.op = "telemetry" -> AmpSendOutcomes \cup {CallOutcome("UnexpectedFormat", TRUE)}
  ELSE CASE c.op = "sleep" -> {CallOutcome("return", FALSE), CallOutcome("KeyboardInterrupt", FALSE)}
         [] c.op = "sleep until Ctrl-C" -> {CallOutcome("return", FALSE)}
         [] c.op = "Exit(2)" -> {CallOutcome("Exit", FALSE)}

\* the call is made and comes to o
Issue(c, o) == issued' = Append(issued, [dev |-> c.dev, op |-> c.op, kind |-> o.kind, wrote |-> o.wrote])

\* one statement of the block a command is executing: the next call is made;
\* an error leaves the block
BlockStep(after) ==
  /\ todo # <<>>
  /\ \E o \in MethodOutcomes(Head(todo)) :
       /\ Issue(Head(todo), o)
       /\ IF o.kind = "return"
          THEN /\ todo' = Tail(todo)
               /\ UNCHANGED <<stmt, raising>>
          ELSE /\ todo' = <<>>
               /\ raising' = o.kind
               /\ stmt' = after

\* the exit status of a command that ends with the exception e propagating
ExitStatus(e) == IF e = "none" THEN 0 ELSE IF e = "Exit" THEN 2 ELSE 1

\* ------------------------------------------------------- the flex commands
\* the one-call commands and the call each makes inside its try
FlexCommands ==
  [mode |-> "set_mode", freq |-> "set_frequency_mhz", rfpower |-> "set_rf_power_pct",
   tunepower |-> "set_tune_power_pct", drive |-> "set_drive_w",
   tune_on |-> "key_carrier_on", tune_off |-> "key_carrier_off"]

\* the options of flex batch (mode, rfpower, tunepower, two_tone: given or
\* not; tune: "on", "off", "both", "none"; hold: -1, 0, 1) and of flex
\* persist (persist: "on", "off", "both", "status", "none")
BatchOptions ==
  [name : {"batch"}, mode : BOOLEAN, tuning : {"freq", "band", "none"}, rfpower : BOOLEAN,
   tunepower : BOOLEAN, two_tone : BOOLEAN, tune : {"on", "off", "both", "none"},
   hold : {-1, 0, 1}, persist : {"none"}]
FlexOptions ==
  BatchOptions
    \cup [name : DOMAIN FlexCommands \cup {"persist"}, mode : {FALSE}, tuning : {"none"},
          rfpower : {FALSE}, tunepower : {FALSE}, two_tone : {FALSE}, tune : {"none"},
          hold : {0}, persist : {"on", "off", "both", "status", "none"}]

Radio(op) == DeviceCall("radio", op)
When(c, calls) == IF c THEN calls ELSE <<>>

\* cli_devices.py 378-429: the calls of the try block of flex batch, in order
BatchBody(o) ==
  LET tune_on == o.tune \in {"on", "both"}
      tune_off == o.tune = "off"
  IN When(o.mode, <<Radio("set_mode")>>)
       \o When(o.tuning = "freq", <<Radio("set_frequency_mhz")>>)
       \o When(o.tuning = "band", <<Radio("set_band")>>)
       \o When(o.rfpower, <<Radio("set_rf_power_pct")>>)
       \o When(o.tunepower, <<Radio("set_tune_power_pct")>>)
       \o When(o.two_tone, <<Radio("set_two_tone")>>)
       \o When(tune_on, <<Radio("key_carrier_on")>>)
       \o When(tune_off, <<Radio("key_carrier_off")>>)
       \o When(o.hold < 0, <<DeviceCall("time", "sleep until Ctrl-C")>>)
       \o When(o.hold > 0, <<DeviceCall("time", "sleep")>>)
       \o When(o.hold # 0 /\ tune_on, <<Radio("key_carrier_off")>>)

\* cli_devices.py 471-486: the try block of flex persist
PersistBody(o) ==
  CASE o.persist = "status" -> <<>>
    [] o.persist = "both" -> <<DeviceCall("typer", "Exit(2)")>>
    [] o.persist \in {"on", "off"} -> <<Radio("set_band_persistence")>>
    [] OTHER -> <<DeviceCall("typer", "Exit(2)")>>

\* the try block of a flex command
FlexBody(o) ==
  IF o.name = "batch" THEN BatchBody(o)
  ELSE IF o.name = "persist" THEN PersistBody(o)
  ELSE <<Radio(FlexCommands[o.name])>>

\* a flex command is invoked
FlexStart ==
  /\ cmd = "none"
  /\ pc = "idle"
  /\ cmd' = "flex"
  /\ opt' \in FlexOptions
  /\ stmt' = "connect"
  /\ UNCHANGED <<dev, gc, pc, call, ret, radioVars, ampVars, netVars, monVars,
                 raising, todo, issued, test_cases, results, exit_code>>

\* r = FlexRadio(...); r.connect(): an error ends the command
FlexConnect ==
  /\ cmd = "flex"
  /\ stmt = "connect"
  /\ \E o \in MethodOutcomes(Radio("connect")) :
       /\ Issue(Radio("connect"), o)
       /\ IF o.kind = "return"
          THEN /\ stmt' = "try"
               /\ todo' = FlexBody(opt)
               /\ UNCHANGED <<raising, exit_code>>
          ELSE /\ stmt' = "exit"
               /\ raising' = o.kind
               /\ exit_code' = ExitStatus(o.kind)
               /\ todo' = todo
  /\ UNCHANGED <<dev, gc, pc, call, ret, radioVars, ampVars, netVars, monVars,
                 cmd, opt, test_cases, results>>

\* one call of the try block
FlexTry ==
  /\ cmd = "flex"
  /\ stmt = "try"
  /\ BlockStep("finally")
  /\ UNCHANGED <<dev, gc, pc, call, ret, radioVars, ampVars, netVars, monVars,
                 cmd, opt, test_cases, results, exit_code>>

\* the try block has run to its end
FlexTryEnds ==
  /\ cmd = "flex"
  /\ stmt = "try"
  /\ todo = <<>>
  /\ stmt' = "finally"
  /\ UNCHANGED <<dev, gc, pc, call, ret, radioVars, ampVars, netVars, monVars,
                 cmd, opt, raising, todo, issued, test_cases, results, exit_code>>

\* a clean-up that runs only when nothing was raised
CleanupOnSuccess(e) == e = "none"

\* finally: the clean-up runs whatever is propagating
Cleanup(e) == TRUE

\* finally: r.disconnect(), and the command ends
FlexFinally ==
  /\ cmd = "flex"
  /\ stmt = "finally"
  /\ IF Cleanup(raising)
     THEN Issue(Radio("disconnect"), CallOutcome("return", FALSE))
     ELSE issued' = issued
  /\ stmt' = "exit"
  /\ exit_code' = ExitStatus(raising)
  /\ UNCHANGED <<dev, gc, pc, call, ret, radioVars, ampVars, netVars, monVars,
                 cmd, opt, raising, todo, test_cases, results>>

\* ------------------------------------------------------- the sweep command
\* the options of sweep: the amplifier is not given, given with
\* --no-amp-operate, or given and set to OPERATE; mode, rfpower, tunepower,
\* two_tone: given or not; points: frequencies in the plan; plan: "ok", or
\* "bad" (unknown band, offset too large), or "dry" (--dry-run)
SweepOptions ==
  [amp : {"none", "connect", "operate"}, mode : BOOLEAN, rfpower : BOOLEAN,
   tunepower : BOOLEAN, two_tone : BOOLEAN, points : 1..MaxPoints, plan : {"ok"}]
    \cup [amp : {"none"}, mode : {FALSE}, rfpower : {TRUE}, tunepower : {TRUE},
          two_tone : {FALSE}, points : {1}, plan : {"bad", "dry"}]

Amp(op) == DeviceCall("amp", op)

\* cli_devices.py 340-347: the calls made for each frequency of the plan
RECURSIVE PointCalls(_)
PointCalls(n) ==
  IF n = 0 THEN <<>>
  ELSE <<Radio("set_frequency_mhz"), Radio("key_carrier_on"), Radio("key_carrier_off")>>
         \o PointCalls(n - 1)

\* cli_devices.py 320-347: the calls of the try block of sweep, in order
SweepBody(o) ==
  When(o.mode, <<Radio("set_mode")>>)
    \o When(o.rfpower, <<Radio("set_rf_power_pct")>>)
    \o When(o.tunepower, <<Radio("set_tune_power_pct")>>)
    \o When(o.two_tone, <<Radio("set_two_tone")>>)
    \o PointCalls(o.points)

\* cli_devices.py 289-309: the plan is made and printed; a bad parameter or
\* --dry-run ends the command here
SweepStart ==
  /\ cmd = "none"
  /\ pc = "idle"
  /\ cmd' = "sweep"
  /\ opt' \in SweepOptions
  /\ IF opt'.plan = "ok"
     THEN /\ stmt' = "r.connect"
          /\ UNCHANGED <<raising, exit_code>>
     ELSE /\ stmt' = "exit"
          /\ raising' = IF opt'.plan = "bad" THEN "Exit" ELSE "none"
          /\ exit_code' = ExitStatus(raising')
  /\ UNCHANGED <<dev, gc, pc, call, ret, radioVars, ampVars, netVars, monVars,
                 todo, issued, test_cases, results>>

\* a call made outside every try: an error ends the command
PlainCall(c, next) ==
  \E o \in MethodOutcomes(c) :
    /\ Issue(c, o)
    /\ IF o.kind = "return"
       THEN /\ stmt' = next
            /\ UNCHANGED <<raising, exit_code>>
       ELSE /\ stmt' = "exit"
            /\ raising' = o.kind
            /\ exit_code' = ExitStatus(o.kind)

\* cli_devices.py 308-310
SweepRadioConnect ==
  /\ cmd = "sweep"
  /\ stmt = "r.connect"
  /\ PlainCall(Radio("connect"), IF opt.amp = "none" THEN "try" ELSE "amp.connect")
  /\ todo' = SweepBody(opt)
  /\ UNCHANGED <<dev, gc, pc, call, ret, radioVars, ampVars, netVars, monVars,
                 cmd, opt, test_cases, results>>

\* cli_devices.py 311-314
SweepAmpConnect ==
  /\ cmd = "sweep"
  /\ stmt = "amp.connect"
  /\ PlainCall(Amp("connect"), IF opt.amp = "operate" THEN "amp.operate" ELSE "try")
  /\ UNCHANGED <<dev, gc, pc, call, ret, radioVars, ampVars, netVars, monVars,
                 cmd, opt, todo, test_cases, results>>

\* cli_devices.py 315-316
SweepAmpOperate ==
  /\ cmd = "sweep"
  /\ stmt = "amp.operate"
  /\ PlainCall(Amp("operate"), "try")
  /\ UNCHANGED <<dev, gc, pc, call, ret, radioVars, ampVars, netVars, monVars,
                 cmd, opt, todo, test_cases, results>>

\* cli_devices.py 319-347: one call of the try block
SweepTry ==
  /\ cmd = "sweep"
  /\ stmt = "try"
  /\ BlockStep("finally")
  /\ UNCHANGED <<dev, gc, pc, call, ret, radioVars, ampVars, netVars, monVars,
                 cmd, opt, test_cases, results, exit_code>>

\* the try block has run to its end
SweepTryEnds ==
  /\ cmd = "sweep"
  /\ stmt = "try"
  /\ todo = <<>>
  /\ stmt' = "finally"
  /\ UNCHANGED <<dev, gc, pc, call, ret, radioVars, ampVars, netVars, monVars,
                 cmd, opt, raising, todo, issued, test_cases, results, exit_code>>

\* cli_devices.py 348-358: with an amplifier, standby (if it was set to
\* OPERATE) and, whatever standby did, amp.disconnect; then r.disconnect,
\* which an error out of standby skips
SweepFinally ==
  /\ cmd = "sweep"
  /\ stmt = "finally"
  /\ \E o \in IF opt.amp = "operate" THEN MethodOutcomes(Amp("standby"))
              ELSE {CallOutcome("return", FALSE)} :
       LET done == [dev |-> "", op |-> "disconnect", kind |-> "return", wrote |-> FALSE]
       IN /\ issued' =
               issued
                 \o When(opt.amp = "operate",
                         <<[dev |-> "amp", op |-> "standby", kind |-> o.kind, wrote |-> o.wrote]>>)
                 \o When(opt.amp # "none", <<[done EXCEPT !.dev = "amp"]>>)
                 \o When(o.kind = "return", <<[done EXCEPT !.dev = "radio"]>>)
          /\ raising' = IF o.kind = "return" THEN raising ELSE o.kind
  /\ stmt' = "exit"
  /\ exit_code' = ExitStatus(raising')
  /\ UNCHANGED <<dev, gc, pc, call, ret, radioVars, ampVars, netVars, monVars,
                 cmd, opt, todo, test_cases, results>>

\* ------------------------------------------------------ the burn-in case
\* burn_in.py 19: the setup calls on the radio, in order
BurnInSetupCalls == <<Radio("set_mode"), Radio("set_drive_w"), Radio("key_carrier_on")>>

\* the telemetry queries made so far
Samples == Cardinality({i \in 1..Len(issued) : issued[i].op = "telemetry"})

\* burn_in.py 10-11: the case is started, with or without a radio configured
BurnInStart ==
  /\ cmd = "none"
  /\ pc = "idle"
  /\ cmd' = "burn_in"
  /\ \E f \in BOOLEAN : opt' = [flex |-> f]
  /\ stmt' = "pg.connect"
  /\ UNCHANGED <<dev, gc, pc, call, ret, radioVars, ampVars, netVars, monVars,
                 raising, todo, issued, test_cases, results, exit_code>>

\* burn_in.py 12
BurnInAmpConnect ==
  /\ cmd = "burn_in"
  /\ stmt = "pg.connect"
  /\ PlainCall(Amp("connect"), IF opt.flex THEN "fx.connect" ELSE "pg.operate")
  /\ UNCHANGED <<dev, gc, pc, call, ret, radioVars, ampVars, netVars, monVars,
                 cmd, opt, todo, test_cases, results>>

\* burn_in.py 14
BurnInRadioConnect ==
  /\ cmd = "burn_in"
  /\ stmt = "fx.connect"
  /\ PlainCall(Radio("connect"), "pg.operate")
  /\ UNCHANGED <<dev, gc, pc, call, ret, radioVars, ampVars, netVars, monVars,
                 cmd, opt, todo, test_cases, results>>

\* burn_in.py 17
BurnInOperate ==
  /\ cmd = "burn_in"
  /\ stmt = "pg.operate"
  /\ PlainCall(Amp("operate"), "setup")
  /\ todo' = When(opt.flex, BurnInSetupCalls)
  /\ UNCHANGED <<dev, gc, pc, call, ret, radioVars, ampVars, netVars, monVars,
                 cmd, opt, test_cases, results>>

\* burn_in.py 18-19: one setup call; these stand before the try, an error
\* ends the case
BurnInSetup ==
  /\ cmd = "burn_in"
  /\ stmt = "setup"
  /\ BlockStep("exit")
  /\ exit_code' = IF stmt' = "exit" THEN ExitStatus(raising') ELSE exit_code
  /\ UNCHANGED <<dev, gc, pc, call, ret, radioVars, ampVars, netVars, monVars,
                 cmd, opt, test_cases, results>>

\* burn_in.py 21-25: the setup is done, the sampling loop is entered
BurnInSetupEnds ==
  /\ cmd = "burn_in"
  /\ stmt = "setup"
  /\ todo = <<>>
  /\ stmt' = "while"
  /\ UNCHANGED <<dev, gc, pc, call, ret, radioVars, ampVars, netVars, monVars,
                 cmd, opt, raising, todo, issued, test_cases, results, exit_code>>

\* burn_in.py 26-30: one iteration of the sampling loop (the two hours are
\* not over); a telemetry query that raises leaves the loop
BurnInSample ==
  /\ cmd = "burn_in"
  /\ stmt = "while"
  /\ Samples < MaxSamples
  /\ \E o \in MethodOutcomes(Amp("telemetry")) :
       /\ Issue(Amp("telemetry"), o)
       /\ IF o.kind = "return"
          THEN UNCHANGED <<stmt, raising>>
          ELSE /\ stmt' = "finally"
               /\ raising' = o.kind
  /\ UNCHANGED <<dev, gc, pc, call, ret, radioVars, ampVars, netVars, monVars,
                 cmd, opt, todo, test_cases, results, exit_code>>

\* burn_in.py 26: the two hours are over
BurnInDeadline ==
  /\ cmd = "burn_in"
  /\ stmt = "while"
  /\ Samples > 0
  /\ stmt' = "finally"
  /\ UNCHANGED <<dev, gc, pc, call, ret, radioVars, ampVars, netVars, monVars,
                 cmd, opt, raising, todo, issued, test_cases, results, exit_code>>

\* burn_in.py 31-44: finally: the carrier is keyed off when there is a
\* radio; the case then writes its files and returns, or the error goes on
BurnInFinally ==
  /\ cmd = "burn_in"
  /\ stmt = "finally"
  /\ \E o \in IF opt.flex THEN MethodOutcomes(Radio("key_carrier_off"))
              ELSE {CallOutcome("return", FALSE)} :
       /\ issued' = issued \o When(opt.flex,
                                   <<[dev |-> "radio", op |-> "key_carrier_off",
                                      kind |-> o.kind, wrote |-> o.wrote]>>)
       /\ raising' = IF o.kind = "return" THEN raising ELSE o.kind
  /\ stmt' = "exit"
  /\ exit_code' = ExitStatus(raising')
  /\ UNCHANGED <<dev, gc, pc, call, ret, radioVars, ampVars, netVars, monVars,
                 cmd, opt, todo, test_cases, results>>

\* ------------------------------------------------------------ the system
\* the caller takes the outcome of the finished call
Return ==
  /\ pc = "done"
  /\ pc' = "idle"
  /\ call' = NoCall
  /\ ret' = NoOutcome
  /\ ObserveReset
  /\ UNCHANGED <<dev, gc, appVars, radioVars, ampVars, netVars>>

Next ==
  \/ PeerSend
  \/ PeerClose
  \/ Return
  \/ RadioConnectFail
  \/ RadioConnectOpen
  \/ RadioPrimePoll
  \/ RadioPrimeDone
  \/ RadioSendFirstRead
  \/ RadioSendPoll
  \/ RadioSendTimeout
  \/ RadioPostSubPoll
  \/ RadioPostSubDone
  \/ RadioDisconnect
  \/ RadioKeyCarrierOn
  \/ RadioSetBandPersistence
  \/ AmpConnectFail
  \/ AmpConnectOpen
  \/ AmpBanner
  \/ AmpDisconnect
  \/ AmpStandby
  \/ AmpReply

Spec == Init /\ [][Next]_vars

\* the radio driven through its setters
InitSetters ==
  /\ Init
  /\ dev = "radio"

NextSetters ==
  \/ PeerAnswers
  \/ PeerClose
  \/ Return
  \/ RadioConnectOpen
  \/ RadioPrimeDone
  \/ RadioSendFirstRead
  \/ RadioSendPoll
  \/ RadioSendTimeout
  \/ RadioPostSubDone
  \/ RadioDisconnect
  \/ RadioSetBand
  \/ RadioSetFrequencyMhz
  \/ RadioSetFrequencyTx
  \/ RadioSetFrequencyTune
  \/ RadioSetRfPowerPct
  \/ RadioSetTunePowerPct

SpecSetters == InitSetters /\ [][NextSetters]_vars

\* the amplifier queried for its status and its info
InitTelemetry ==
  /\ Init
  /\ dev = "amp"

NextTelemetry ==
  \/ PeerStatus
  \/ Return
  \/ AmpConnectOpen
  \/ AmpBanner
  \/ AmpGetInfo
  \/ AmpTelemetry
  \/ AmpReply

SpecTelemetry == InitTelemetry /\ [][NextTelemetry]_vars

\* both clients driven through set_mode
NextModes ==
  \/ PeerAnswers
  \/ Return
  \/ RadioConnectOpen
  \/ RadioPrimeDone
  \/ RadioSendFirstRead
  \/ RadioSendPoll
  \/ RadioSendTimeout
  \/ RadioPostSubDone
  \/ RadioDisconnect
  \/ RadioSetMode
  \/ AmpConnectOpen
  \/ AmpBanner
  \/ AmpDisconnect
  \/ AmpSetMode
  \/ AmpReply

SpecModes == Init /\ [][NextModes]_vars

\* the radio facing a peer that may send without end or close; the clock
\* advances, so each deadline is reached, and a recv returns within the
\* socket's timeout
NextSuspension ==
  \/ PeerFlood
  \/ PeerClose
  \/ Return
  \/ RadioConnectOpen
  \/ RadioPrimePoll
  \/ RadioPrimeDone
  \/ RadioSendFirstRead
  \/ RadioSendPoll
  \/ RadioSendTimeout
  \/ RadioPostSubPoll
  \/ RadioPostSubDone
  \/ RadioDisconnect
  \/ RadioKeyCarrierOn

SpecSuspension ==
  /\ InitSetters
  /\ [][NextSuspension]_vars
  /\ WF_vars(RadioPrimeDone)
  /\ WF_vars(RadioPostSubDone)
  /\ WF_vars(RadioSendFirstRead)
  /\ WF_vars(RadioSendTimeout)

\* the line framer of a connected radio fed by a peer that writes bytes
InitFramer ==
  /\ dev = "radio"
  /\ gc = "refcount"
  /\ pc = "idle"
  /\ call = NoCall
  /\ ret = NoOutcome
  /\ sock = 1
  /\ seq = 0
  /\ rxbuf = <<>>
  /\ connected = TRUE
  /\ last_band_persistence = None
  /\ amp_sock = 0
  /\ tx_id = 0
  /\ firmware_version = None
  /\ used = TRUE
  /\ leaked = FALSE
  /\ wire = <<>>
  /\ inflight = <<>>
  /\ peerClosed = FALSE
  /\ peerSent = 0
  /\ answered = 0
  /\ werr = FALSE
  /\ hmatch = <<>>
  /\ hother = FALSE
  /\ hstray = FALSE
  /\ hpers = None
  /\ received = <<>>
  /\ delivered = <<>>
  /\ NoCommand

NextFramer ==
  \/ PeerByte
  \/ PeerClose
  \/ RadioReadLines
  \/ Return

SpecFramer == InitFramer /\ [][NextFramer]_vars

\* connects and disconnects of both clients, under either interpreter
InitSockets ==
  /\ InitClient
  /\ gc \in {"refcount", "deferred"}

NextSockets ==
  \/ PeerAnswers
  \/ PeerClose
  \/ Return
  \/ RadioConnectFail
  \/ RadioConnectOpen
  \/ RadioPrimeDone
  \/ RadioSendFirstRead
  \/ RadioSendPoll
  \/ RadioSendTimeout
  \/ RadioPostSubDone
  \/ RadioDisconnect
  \/ AmpConnectFail
  \/ AmpConnectOpen
  \/ AmpBanner
  \/ AmpDisconnect

SpecSockets == InitSockets /\ [][NextSockets]_vars

\* the amplifier's counted send facing replies of every form
NextReplies ==
  \/ PeerReplies
  \/ PeerClose
  \/ Return
  \/ AmpConnectOpen
  \/ AmpBanner
  \/ AmpStandby
  \/ AmpReply

SpecReplies == InitTelemetry /\ [][NextReplies]_vars

\* the radio's persistence cache: connects that scan what the peer reports,
\* and the setter
NextPersistence ==
  \/ PeerPersist
  \/ Return
  \/ RadioConnectOpen
  \/ RadioPrimePoll
  \/ RadioPrimeDone
  \/ RadioSendFirstRead
  \/ RadioSendPoll
  \/ RadioSendTimeout
  \/ RadioPostSubPoll
  \/ RadioPostSubDone
  \/ RadioDisconnect
  \/ RadioSetBandPersistence

SpecPersistence == InitSetters /\ [][NextPersistence]_vars

\* the run command and the test runner
NextRunner ==
  \/ RunStart
  \/ RunList
  \/ RunCase
  \/ RunReport

SpecRunner == Init /\ [][NextRunner]_vars

\* the flex commands of the device CLI
NextFlexCli ==
  \/ FlexStart
  \/ FlexConnect
  \/ FlexTry
  \/ FlexTryEnds
  \/ FlexFinally

SpecFlexCli == Init /\ [][NextFlexCli]_vars

\* the sweep command
NextSweep ==
  \/ SweepStart
  \/ SweepRadioConnect
  \/ SweepAmpConnect
  \/ SweepAmpOperate
  \/ SweepTry
  \/ SweepTryEnds
  \/ SweepFinally

SpecSweep == Init /\ [][NextSweep]_vars

\* the burn-in test case
NextBurnIn ==
  \/ BurnInStart
  \/ BurnInAmpConnect
  \/ BurnInRadioConnect
  \/ BurnInOperate
  \/ BurnInSetup
  \/ BurnInSetupEnds
  \/ BurnInSample
  \/ BurnInDeadline
  \/ BurnInFinally

SpecBurnIn == Init /\ [][NextBurnIn]_vars

\* ----------------------------------------------------------------- claims
\* the call is a counted send issued by the caller
IsSendCall == call.op \in {"key_carrier_on", "set_band_persistence", "standby"}

\* a counted send has ended after writing its frame and waiting for a reply
WaitEnded ==
  /\ pc = "done"
  /\ IsSendCall
  /\ call.expect
  /\ ret.kind \notin {"NotConnected", "OSError"}

\* the number that the text between "R" and the first bar of a line denotes
SeqFieldIs(line, n) ==
  LET bar == Find(line, BAR)
      field == IntParse(SubSeq(line, 2, bar - 1))
  IN /\ StartsWith(line, <<"R">>)
     /\ bar > 0
     /\ field.ok
     /\ field.val = n

\* C1: the frames written on one connection carry the sequence numbers
\* 1, 2, ..., N in that order, on the radio and on the amplifier.
C1_WireCountsFromOne ==
  \A i \in 1..Len(wire) : StartsWith(wire[i], <<"C">> \o Str(i) \o <<BAR>>)

\* C2: a reply returned by a counted send carries the sequence number that
\* this send wrote on the wire, on the radio and on the amplifier.
C2_ReturnedReplyCarriesSeq ==
  (pc = "done" /\ IsSendCall /\ ret.kind = "return")
    => /\ SeqFieldIs(ret.val, call.seq)
       /\ StartsWith(wire[Len(wire)], <<"C">> \o Str(call.seq) \o <<BAR>>)

C2_Witness ==
  /\ pc = "done"
  /\ IsSendCall
  /\ ret.kind = "return"
  /\ hother
  /\ call.seq = 2

\* C3: when another line arrives before the reply R<seq>| in a reply wait,
\* the send returns that reply: the other line is neither taken for the match
\* nor the cause of an error, on the radio and on the amplifier.
C3_ReplyAfterUnsolicitedReturned ==
  (WaitEnded /\ hother /\ hmatch # <<>>)
    => (ret.kind = "return" /\ StartsWith(ret.val, hmatch))

\* C4: a send whose reply wait receives no line starting with R<seq>| ends
\* with a TimeoutError naming that sequence number and the command body, and
\* returns no value.
C4_NoMatchEndsInTimeout ==
  (WaitEnded /\ hmatch = <<>>)
    => ret = Outcome("TimeoutError", <<>>, call.seq, call.body)

\* C5: a counted send on a session that holds no socket raises the
\* not-connected error, writes no frame and leaves the sequence counter and
\* the receive buffer as they were.
C5_SendWhenDisconnected ==
  [][(pc = "idle" /\ IsSendCall' /\ CurrentSock = 0)
       => /\ pc' = "done"
          /\ ret' = Raised("NotConnected")
          /\ wire' = wire
          /\ seq' = seq
          /\ tx_id' = tx_id
          /\ rxbuf' = rxbuf]_vars

C5_Witness ==
  /\ pc = "done"
  /\ IsSendCall
  /\ ret.kind = "NotConnected"
  /\ used
  /\ seq + tx_id > 0

\* C6: a radio send with expect_response false whose write succeeds appends
\* exactly one frame, returns None at once, reads nothing from the socket,
\* and changes only the sequence counter (by one): the receive buffer and,
\* for a plain send, the cached state are untouched.
C6_FireAndForget ==
  [][(/\ dev = "radio"
      /\ pc = "idle"
      /\ IsSendCall'
      /\ ~call'.expect
      /\ sock # 0
      /\ ret'.kind # "OSError")
       => /\ pc' = "done"
          /\ ret' = ReturnedNone
          /\ seq' = seq + 1
          /\ wire' = Append(wire, <<"C">> \o Str(seq + 1) \o <<BAR>> \o call'.body \o <<NL>>)
          /\ rxbuf' = rxbuf
          /\ inflight' = inflight
          /\ (call'.op = "key_carrier_on"
                => last_band_persistence' = last_band_persistence)]_vars

C6_Witness ==
  /\ dev = "radio"
  /\ pc = "done"
  /\ call.op = "key_carrier_on"
  /\ ~call.expect
  /\ ret = ReturnedNone
  /\ rxbuf # <<>>
  /\ inflight # <<>>
  /\ last_band_persistence # None

\* C7: a line carrying the persistence field that a reply wait reads and
\* does not match is passed to the scanner, so after the send the cached
\* value is the one of the last such line.
C7_WaitScansOtherLines ==
  (dev = "radio" /\ WaitEnded /\ hpers # None)
    => get_band_persistence_cached = hpers

\* C8: when connect returns on a fresh radio session, the cached value is
\* the one of the last persistence line read in the priming window (or in
\* the brief read after the subscribe), unknown if there was none, and no
\* frame other than the subscribe has been written.
C8_PrimingFillsCache ==
  (dev = "radio" /\ pc = "done" /\ call.op = "connect" /\ call.fresh
     /\ ret = ReturnedNone)
    => /\ get_band_persistence_cached = hpers
       /\ (~call.subscribe => wire = <<>>)
       /\ \A i \in 1..Len(wire) : wire[i] = <<"C", "1", BAR, "sub radio all", NL>>

C8_Witness ==
  /\ dev = "radio"
  /\ pc = "done"
  /\ call.op = "connect"
  /\ call.fresh
  /\ ret = ReturnedNone
  /\ call.subscribe
  /\ Len(wire) = 1
  /\ hpers = "False"

\* C9: once the radio session is disconnected the cached value is unknown.
C9_CacheResetOnDisconnect ==
  (dev = "radio" /\ sock = 0) => get_band_persistence_cached = None

\* C10: a connect that raises leaves the session disconnected: no socket is
\* retained, on the radio and on the amplifier.
C10_FailedConnectLeavesDisconnected ==
  (pc = "done" /\ call.op = "connect" /\ ret.kind # "None")
    => (CurrentSock = 0 /\ ~connected)

C12_SubscribeFailureSwallowed ==
  /\ []((dev = "radio" /\ call.op = "connect" /\ call.seq > 0 /\ pc \in {"postsub", "done"})
          => /\ connected
             /\ sock # 0
             /\ call.seq = 1
             /\ seq = 1
             /\ (pc = "done" => ret = ReturnedNone))
  /\ [][(dev = "radio" /\ pc = "idle" /\ IsSendCall' /\ RadioIsConnected)
          => /\ seq' = seq + 1
             /\ call'.seq = seq + 1
             /\ (wire' # wire
                   => wire' = Append(wire, <<"C">> \o Str(seq + 1) \o <<BAR>>
                                             \o call'.body \o <<NL>>))]_vars

\* the peer has sent nothing on this connection, so the subscribe timed
\* out; the caller's send after connect is on the wire as number 2
C12_Witness ==
  /\ dev = "radio"
  /\ IsSendCall
  /\ call.seq = 2
  /\ peerSent = 0
  /\ Len(wire) = 2
  /\ wire[1] = <<"C", "1", BAR, "sub radio all", NL>>
  /\ StartsWith(wire[2], <<"C", "2", BAR>>)

\* C13: while the peer answers each frame at most once, in order and with
\* the frame's own sequence number (possibly after the client's wait has
\* ended), no send fails with a sequence-mismatch error.
C13_NoMismatchUnderDiscipline ==
  (answered >= 0) => ret.kind # "CounterMismatch"

\* C14: a reply to another sequence number that arrives while a send awaits
\* its reply makes the send fail with a sequence-mismatch error.
C14_StrayReplyIsMismatch ==
  (WaitEnded /\ hstray) => ret.kind = "CounterMismatch"

\* C15: the engine never retries: a counted send that passed the connected
\* check and whose write succeeded has put exactly one frame with its
\* number on the wire when it ends, whether it returns, times out or fails
\* on a malformed or mismatched reply; frames are written only by the step
\* that starts a send, one at a time.
C15_NoRetry ==
  /\ []((pc = "done" /\ IsSendCall /\ call.seq > 0 /\ ret.kind # "OSError")
          => /\ Cardinality({i \in 1..Len(wire) :
                               StartsWith(wire[i], <<"C">> \o Str(call.seq) \o <<BAR>>)}) = 1
             /\ wire[Len(wire)] = <<"C">> \o Str(call.seq) \o <<BAR>> \o call.body
                                     \o (IF dev = "radio" THEN <<NL>> ELSE <<"\r", NL>>))
  /\ [][(wire' # wire)
          => /\ pc \in {"idle", "prime"}
             /\ (wire' = <<>> \/ (Len(wire') = Len(wire) + 1
                                     /\ SubSeq(wire', 1, Len(wire)) = wire))]_vars

\* a radio send that ended in a timeout after its one frame
C15_Witness ==
  /\ dev = "radio"
  /\ pc = "done"
  /\ IsSendCall
  /\ ret.kind = "TimeoutError"
  /\ call.seq = 2
  /\ Len(wire) = 2

\* the center frequency of a band as the wire shows it, six decimals
CenterText(band_m) ==
  CASE band_m = 20 -> <<"1", "4", ".", "1", "7", "5", "0", "0", "0">>
    [] band_m = 6 -> <<"5", "0", ".", "5", "0", "0", "0", "0", "0">>
    [] OTHER -> <<>>

\* C16: set_band with a band that is not in the table of band centers ends
\* at once with the unsupported-band error, no frame written and the
\* sequence counter unchanged; with a listed band, once its second command
\* is on the wire, the last two frames are "slice s 0 tx=1" and
\* "slice t 0 <center of the band>" with consecutive numbers.
C16_SetBand ==
  /\ [][(pc = "idle" /\ call'.op = "set_band" /\ call'.arg \notin DOMAIN BandCenters)
          => /\ pc' = "done"
             /\ ret' = Raised("UnsupportedBand")
             /\ wire' = wire
             /\ seq' = seq]_vars
  /\ []((call.op = "set_band" /\ (pc \in {"send_first", "send_wait"}
                                    \/ (pc = "done" /\ ret.kind \in {"None", "TimeoutError"})))
          => /\ call.arg \in DOMAIN BandCenters
             /\ Len(wire) >= 2
             /\ seq = call.seq
             /\ wire[Len(wire) - 1] = <<"C">> \o Str(seq - 1) \o <<BAR, "slice s 0 tx=1", NL>>
             /\ wire[Len(wire)] = <<"C">> \o Str(seq) \o <<BAR, "slice t 0 ">>
                                     \o CenterText(call.arg) \o <<NL>>)

\* set_band with band 11 has raised on a connected session
C16_Witness ==
  /\ pc = "done"
  /\ call.op = "set_band"
  /\ call.arg = 11
  /\ ret.kind = "UnsupportedBand"
  /\ connected
  /\ sock # 0

\* C17: on a connected session whose write succeeds, set_rf_power_pct(p)
\* and set_tune_power_pct(p) return normally for every integer p and write
\* one frame whose value is min(100, max(0, p)), a number in 0..100.
C17_PowerClamped ==
  [][(pc = "idle" /\ call'.op \in {"set_rf_power_pct", "set_tune_power_pct"}
        /\ connected /\ sock # 0 /\ ret'.kind # "OSError")
       => LET p == call'.arg
              v == IF p < 0 THEN 0 ELSE IF p > 100 THEN 100 ELSE p
              key == IF call'.op = "set_rf_power_pct" THEN "transmit set rfpower="
                     ELSE "transmit set tunepower="
          IN /\ pc' = "done"
             /\ ret' = ReturnedNone
             /\ v \in 0..100
             /\ wire' = Append(wire, <<"C">> \o Str(seq + 1) \o <<BAR, key>>
                                       \o Str(v) \o <<NL>>)]_vars

\* set_rf_power_pct(150) has returned with rfpower=100 on the wire
C17_Witness ==
  /\ pc = "done"
  /\ call.op = "set_rf_power_pct"
  /\ call.arg = 150
  /\ ret = ReturnedNone
  /\ wire # <<>>
  /\ wire[Len(wire)] = <<"C">> \o Str(seq) \o <<BAR, "transmit set rfpower=", "1", "0", "0", NL>>

\* what follows the reply prefix of sequence s in a line
PayloadOf(line, s) == SubSeq(line, Len(ReplyPrefix(s)) + 1, Len(line))

\* a get_info or telemetry call has ended after reading one chunk that began
\* with a reply line for its sequence number, carrying a status payload
ParsedReply(op) ==
  /\ pc = "done"
  /\ call.op = op
  /\ hmatch # <<>>
  /\ ~hother
  /\ PayloadOf(hmatch, call.seq) \in StatusPayloads

\* the key=value pairs each status payload spells out
ExpectedKv(payload) ==
  CASE payload = <<"0", BAR, "vdd", "=", "4", "8", ".", "1", " ", "id", "=", "2", ".", "3",
                   " ", "fanmode", "=", "AUTO">>
         -> (<<"vdd">> :> <<"4", "8", ".", "1">>) @@ (<<"id">> :> <<"2", ".", "3">>)
              @@ (<<"fanmode">> :> <<"AUTO">>)
    [] payload = <<"0", BAR, "junk", " ", "id", "=", "1", " ", "id", "=", "2", BAR, "x">>
         -> (<<"id">> :> <<"2", BAR, "x">>)
    [] payload = <<"0", BAR, "hltemp", "=", "0", " ", "temp", "=", "3", "5">>
         -> (<<"hltemp">> :> <<"0">>) @@ (<<"temp">> :> <<"3", "5">>)
    [] OTHER -> <<>>

\* C18: a reply R<seq>|<status>|<kvblob> is split at its first two bars
\* only; with fewer than two bars the call fails with the format error;
\* tokens without "=" are ignored and every key=value token gives the key
\* its string value, a later one for the same key replacing the earlier.
C18_ParseKeyvals ==
  ParsedReply("get_info")
    => ret = IF PayloadOf(hmatch, call.seq) = <<"0">>
             THEN Raised("UnexpectedFormat")
             ELSE Returned(ExpectedKv(PayloadOf(hmatch, call.seq)))

\* get_info has parsed "0|junk id=1 id=2|x"
C18_Witness ==
  /\ ParsedReply("get_info")
  /\ ret.kind = "return"
  /\ <<"id">> \in DOMAIN ret.val
  /\ ret.val[<<"id">>] = <<"2", BAR, "x">>

\* the number a value of the status payloads denotes, unknown for a value
\* that is no number or a key that is absent
NumberOf(kv, key) ==
  IF <<key>> \notin DOMAIN kv THEN Unknown
  ELSE CASE kv[<<key>>] = <<"4", "8", ".", "1">> -> Float(481, 1)
         [] kv[<<key>>] = <<"2", ".", "3">> -> Float(23, 1)
         [] kv[<<key>>] = <<"0">> -> Float(0, 0)
         [] kv[<<key>>] = <<"3", "5">> -> Float(35, 0)
         [] OTHER -> Unknown

\* C19: telemetry reports each numeric field as the value of its reply key
\* when the key is present and numeric and as unknown when it is absent or
\* not numeric (the amplifier temperature from hltemp, from temp when
\* hltemp gives none); the fan mode is the fanmode string or unknown.
C19_TelemetryFields ==
  (ParsedReply("telemetry") /\ PayloadOf(hmatch, call.seq) # <<"0">>)
    => LET kv == ExpectedKv(PayloadOf(hmatch, call.seq))
       IN /\ ret.kind = "return"
          /\ ret.val.Vd = NumberOf(kv, "vdd")
          /\ ret.val.Id = NumberOf(kv, "id")
          /\ ret.val.SWR = NumberOf(kv, "swr")
          /\ ret.val.PoutW = NumberOf(kv, "fwd")
          /\ ret.val.PS_TempC = NumberOf(kv, "temp")
          /\ ret.val.PA_TempC = IF NumberOf(kv, "hltemp").known THEN NumberOf(kv, "hltemp")
                                 ELSE NumberOf(kv, "temp")
          /\ ret.val.Fan = IF <<"fanmode">> \in DOMAIN kv THEN Text(kv[<<"fanmode">>])
                            ELSE Unknown

\* C20: the cached band-persistence value changes only in a step of the
\* line scanner (a scanning read of connect); no setter, send or
\* disconnect changes it.
C20_CacheChangedOnlyByScanner ==
  [][(last_band_persistence' # last_band_persistence)
       => pc \in {"prime", "postsub"}]_vars

\* C21: the amplifier's set_mode takes only the strings that, stripped and
\* upper-cased, read AB or AAB: with any other string it raises the input
\* error at once, no frame written and the counter unchanged; with an
\* accepted one on a connected session whose write succeeds it writes the
\* one frame "setup biasA=RADIO_<m> biasB=RADIO_<m>".
C21_BiasModeValidated ==
  [][(dev = "amp" /\ pc = "idle" /\ call'.op = "set_mode")
       => LET ab == call'.mode \in {<<"A", "B">>, <<" ", "A", "b", "\n">>}
              aab == call'.mode \in {<<"a", "a", "b">>, <<"A", "A", "B", " ">>}
              m == IF ab THEN <<"A", "B">> ELSE <<"A", "A", "B">>
          IN IF ab \/ aab
             THEN (amp_sock # 0 /\ ret'.kind # "OSError")
                    => /\ tx_id' = tx_id + 1
                       /\ wire' = Append(wire, <<"C">> \o Str(tx_id + 1)
                                    \o <<BAR, "setup biasA=RADIO_">> \o m
                                    \o <<" biasB=RADIO_">> \o m \o <<"\r", NL>>)
             ELSE /\ pc' = "done"
                  /\ ret' = Raised("ValueError")
                  /\ wire' = wire
                  /\ tx_id' = tx_id]_vars

\* set_mode(" Ab\n") has put its frame on the wire as number 2
C21_Witness ==
  /\ dev = "amp"
  /\ call.op = "set_mode"
  /\ call.mode = <<" ", "A", "b", "\n">>
  /\ call.seq = 2
  /\ wire[Len(wire)] = <<"C", "2", BAR, "setup biasA=RADIO_", "A", "B",
                          " biasB=RADIO_", "A", "B", "\r", NL>>

\* the slice modes of the radio
SliceModes ==
  {<<"U", "S", "B">>, <<"L", "S", "B">>, <<"C", "W">>, <<"A", "M">>, <<"F", "M">>}

\* C22: the radio's set_mode called on a connected session with a string
\* that, stripped and upper-cased, names no mode raises the input error,
\* and no frame is written.
C22_RadioModeValidated ==
  [][(dev = "radio" /\ pc = "idle" /\ call'.op = "set_mode" /\ RadioIsConnected
        /\ Upper(Strip(call'.mode)) \notin SliceModes)
       => /\ ret'.kind = "ValueError"
          /\ wire' = wire]_vars

\* C23: the sequence counter goes back only in connect, and then to 0;
\* disconnect leaves it as it was; the step of the radio's connect that
\* opens the new socket leaves the counter at 0, the receive buffer empty
\* and no frame written; when a connect returns normally, the counter
\* equals the frames written on the new connection (none, or the one
\* subscribe as number 1); and the first frame written at counter 0 carries
\* number 1, as does the first frame of every radio connection.
C23_CounterResetOnlyByConnect ==
  /\ [][((seq' < seq \/ tx_id' < tx_id)
            => (call'.op = "connect" /\ seq' = 0 /\ tx_id' = 0))
         /\ ((pc = "idle" /\ call'.op = "disconnect")
                => (seq' = seq /\ tx_id' = tx_id))
         /\ ((dev = "radio" /\ pc = "idle" /\ pc' = "prime")
                => (seq' = 0 /\ rxbuf' = <<>> /\ wire' = <<>> /\ inflight' = <<>>))
         /\ ((wire = <<>> /\ wire' # <<>> /\ seq = 0 /\ tx_id = 0)
                => (Len(wire') = 1 /\ StartsWith(wire'[1], <<"C", "1", BAR>>)))]_vars
  /\ []((pc = "done" /\ call.op = "connect" /\ ret = ReturnedNone /\ ~werr)
          => /\ seq + tx_id = Len(wire)
             /\ \A i \in 1..Len(wire) : wire[i] = <<"C", "1", BAR, "sub radio all", NL>>)
  /\ []((dev = "radio" /\ wire # <<>>) => StartsWith(wire[1], <<"C", "1", BAR>>))

\* the first send after a reconnect of the radio is on the wire as number
\* 1; the cached value was read on the earlier connection, the peer having
\* sent nothing on this one
C23_Witness ==
  /\ dev = "radio"
  /\ call.op = "key_carrier_on"
  /\ call.seq = 1
  /\ wire = <<<<"C", "1", BAR, "transmit tune on", NL>>>>
  /\ peerSent = 0
  /\ last_band_persistence = "True"

\* the caller is suspended inside connect or inside a reply wait
Suspended == pc \in {"prime", "postsub", "send_first", "send_wait"}

\* C24: every suspension of the radio client ends: a connect that has
\* opened its socket returns, and a reply wait is left, whatever the peer
\* does (nothing, lines without end, a close); a reply wait is left only
\* with the matching line or by the timeout.
C24_SuspensionBounded ==
  /\ Suspended ~> (pc = "done")
  /\ [][(pc \in {"send_first", "send_wait"} /\ pc' \notin {"send_first", "send_wait"})
          => IF call.op = "connect" THEN pc' = "postsub"
             ELSE /\ pc' = "done"
                  /\ \/ ret' = Outcome("TimeoutError", <<>>, call.seq, call.body)
                     \/ /\ ret'.kind = "return"
                        /\ StartsWith(ret'.val, <<"R">> \o Str(call.seq) \o <<BAR>>)]_vars

\* connect has returned although the peer kept sending: lines are still
\* unread
C24_Witness ==
  /\ pc = "done"
  /\ call.op = "connect"
  /\ call.subscribe
  /\ ret = ReturnedNone
  /\ peerSent = MaxPeerLines
  /\ inflight # <<>>
  /\ hpers # None

\* the characters of a whole byte stream
CharsOf(bs) == Decode(bs)

\* the positions of the line terminators of a text
Terminators(t) == {i \in 1..Len(t) : t[i] = NL}

\* the n-th line of a text, trimmed: what lies between the terminator before
\* the n-th one and the n-th one
LineAt(t, n) ==
  LET e == CHOOSE i \in Terminators(t) :
             Cardinality({j \in Terminators(t) : j <= i}) = n
      b == IF n = 1 THEN 0
           ELSE CHOOSE i \in Terminators(t) :
                  Cardinality({j \in Terminators(t) : j <= i}) = n - 1
  IN Strip(SubSeq(t, b + 1, e - 1))

\* the trimmed lines of a text, and its unterminated tail
LinesOf(t) == [n \in 1..Cardinality(Terminators(t)) |-> LineAt(t, n)]
TailOf(t) ==
  IF Terminators(t) = {} THEN t
  ELSE SubSeq(t, (CHOOSE i \in Terminators(t) : \A j \in Terminators(t) : j <= i) + 1, Len(t))

\* C25: however the stream is cut into chunks, the lines returned so far by
\* the calls of the framer, taken together, are the trimmed lines of the
\* text received so far, in order and once each, and the buffer holds that
\* text's unterminated tail.
C25_FramingIndependentOfChunks ==
  /\ delivered = LinesOf(CharsOf(received))
  /\ rxbuf = TailOf(CharsOf(received))

\* C26: the receive buffer never holds a line terminator once a call of
\* the framer has ended, and a call whose recv gave nothing (it timed out,
\* or the peer had closed) returns the empty sequence, raising nothing, and
\* leaves the buffer as it was.
C26_BufferHoldsNoTerminator ==
  /\ [](\A i \in 1..Len(rxbuf) : rxbuf[i] # NL)
  /\ [][(pc = "idle" /\ call'.op = "read_lines" /\ call'.arg = 0)
          => /\ ret' = Returned(<<>>)
             /\ rxbuf' = rxbuf
             /\ delivered' = delivered]_vars

\* a recv has timed out while the buffer held a fragment, lines having been
\* delivered before
C26_Witness ==
  /\ pc = "done"
  /\ call.op = "read_lines"
  /\ call.arg = 0
  /\ ~peerClosed
  /\ rxbuf # <<>>
  /\ delivered # <<>>
  /\ ret = Returned(<<>>)

\* what follows, in a text, its first complete line that starts (trimmed)
\* with the prefix
AfterFirstMatch(t, prefix) ==
  LET n == FirstWith(LinesOf(t), prefix)
      e == CHOOSE i \in Terminators(t) : Cardinality({j \in Terminators(t) : j <= i}) = n
  IN SubSeq(t, e + 1, Len(t))

\* C27: the step of a radio send that finds its reply consumes the stream
\* up to the end of the matching line and no further: what followed that
\* line in the text received and not yet delivered (in the buffer, or still
\* unread) is there for the next read.
C27_NothingDrainedPastMatch ==
  [][(dev = "radio" /\ pc \in {"send_first", "send_wait"}
        /\ pc' \notin {"send_first", "send_wait"} /\ inflight' # inflight)
       => rxbuf' \o inflight' = AfterFirstMatch(rxbuf \o inflight, Want(call.seq))]_vars

\* C28: on the radio, a reply to another sequence number read during a
\* reply wait does not end it: the send returns the line that starts with
\* its own R<seq>| once that is read, and ends in the timeout when none is.
C28_StaleReplySkipped ==
  (dev = "radio" /\ WaitEnded)
    => /\ (hmatch # <<>> => ret = Returned(hmatch))
       /\ (hmatch = <<>> => ret = Outcome("TimeoutError", <<>>, call.seq, call.body))
       /\ (ret.kind = "return" => StartsWith(ret.val, <<"R">> \o Str(call.seq) \o <<BAR>>))

\* the peer answered frame 1, sent without waiting, late: its reply was
\* read by the wait of frame 2, which returned its own reply
C28_Witness ==
  /\ dev = "radio"
  /\ WaitEnded
  /\ call.seq = 2
  /\ hstray
  /\ answered = 2
  /\ ret = Returned(<<"R", "2", BAR>>)

\* a frequency as the wire shows it, six decimals
FreqText(khz) ==
  CASE khz = 7074 -> <<"7", ".", "0", "7", "4", "0", "0", "0">>
    [] khz = 14200 -> <<"1", "4", ".", "2", "0", "0", "0", "0", "0">>
    [] OTHER -> <<>>

\* C29: once set_frequency_mhz has written its second command, the last two
\* frames are "slice s 0 tx=1" and "slice t 0 <freq>" with consecutive
\* numbers; the first is not awaited, the second is: when no reply to it is
\* read the call ends with the TimeoutError of the second command, and the
\* step that raises it writes nothing and leaves both frames sent; during
\* the call frames are written only by its two sends.
C29_SetFrequencyNotRolledBack ==
  /\ []((call.op = "set_frequency_mhz"
           /\ (pc \in {"send_first", "send_wait"}
                 \/ (pc = "done" /\ ret.kind \in {"None", "TimeoutError"})))
          => /\ Len(wire) >= 2
             /\ seq = call.seq
             /\ wire[Len(wire) - 1] = <<"C">> \o Str(seq - 1) \o <<BAR, "slice s 0 tx=1", NL>>
             /\ wire[Len(wire)] = <<"C">> \o Str(seq) \o <<BAR, "slice t 0 ">>
                                     \o FreqText(call.arg) \o <<NL>>
             /\ (pc = "done" /\ hmatch = <<>>
                   => ret = Outcome("TimeoutError", <<>>, seq,
                                    <<"slice t 0 ">> \o FreqText(call.arg))))
  /\ [][(call.op = "set_frequency_mhz" /\ call'.op = "set_frequency_mhz")
          => /\ (ret'.kind = "TimeoutError" /\ ret.kind # "TimeoutError"
                   => (pc = "send_wait" /\ pc' = "done" /\ wire' = wire /\ seq' = seq))
             /\ (wire' # wire
                   => (pc \in {"set_frequency", "set_frequency_2"}
                       /\ Len(wire') = Len(wire) + 1
                       /\ SubSeq(wire', 1, Len(wire)) = wire))]_vars

\* set_frequency_mhz(7.074) has timed out with both frames on the wire
C29_Witness ==
  /\ pc = "done"
  /\ call.op = "set_frequency_mhz"
  /\ ret.kind = "TimeoutError"
  /\ wire = <<<<"C", "1", BAR, "slice s 0 tx=1", NL>>,
              <<"C", "2", BAR, "slice t 0 ", "7", ".", "0", "7", "4", "0", "0", "0", NL>>>>

\* C30: whatever connects and disconnects have been called, no socket that
\* the client opened is open without the client referring to it (so the
\* client has at most one open stream).
C30_NoSocketLeftOpen ==
  ~leaked

\* the text is the decimal numeral of n: an optional sign, leading zeros,
\* the digits, blanks around it allowed
Denotes(t, n) ==
  \E zeros \in {<<>>, <<"0">>, <<"0", "0">>} :
    IF n < 0 THEN Strip(t) = <<"-">> \o zeros \o Str(0 - n)
    ELSE \E sign \in {<<>>, <<"+">>, <<"-">>} :
           /\ (sign = <<"-">> => n = 0)
           /\ Strip(t) = sign \o zeros \o Str(n)

\* the text is a decimal numeral: an optional sign and one digit or more,
\* blanks around it allowed
IsNumeral(t) ==
  \E u \in {Strip(t)} :
    \E d \in {IF Len(u) > 0 /\ u[1] \in {"+", "-"} THEN Tail(u) ELSE u} :
      /\ Len(d) > 0
      /\ \A i \in 1..Len(d) : d[i] \in {"0", "1", "2", "3", "4", "5", "6", "7", "8", "9"}

\* the text one recv of the reply read has just returned, stripped
ReplyText == Strip(SubSeq(inflight, 1, Len(inflight) - Len(inflight')))

\* the number on a frame
FrameNumber(frame) == SubSeq(frame, 2, Find(frame, BAR) - 1)

\* C31: the amplifier's counted send returns the received text exactly when
\* it starts with "R", contains a bar, and the text between them is a decimal
\* integer equal to the counter sent; a text failing one of the first three
\* checks raises the malformed-response error, another integer the
\* counter-mismatch error; after every error the counter stays at the number
\* sent, and no number is written twice on one connection.
C31_ReplyChecked ==
  /\ [][(dev = "amp" /\ pc = "amp_reply" /\ pc' = "done" /\ call.op = "standby")
          => \E t \in {ReplyText} : \E bar \in {Find(t, BAR)} :
               \E field \in {SubSeq(t, 2, bar - 1)} :
                 LET shaped == /\ Len(t) > 0
                               /\ t[1] = "R"
                               /\ bar > 0
                               /\ IsNumeral(field)
                 IN /\ tx_id' = call.seq
                    /\ IF Len(inflight') = Len(inflight) /\ ~peerClosed
                       THEN ret'.kind = "socket.timeout"
                       ELSE IF ~shaped THEN ret'.kind = "Malformed"
                       ELSE IF ~Denotes(field, call.seq) THEN ret'.kind = "CounterMismatch"
                       ELSE ret' = Returned(t)]_vars
  /\ [](dev = "amp" =>
          \A i \in 1..Len(wire) : \A j \in (i + 1)..Len(wire) :
             FrameNumber(wire[i]) # FrameNumber(wire[j]))

\* the second send of a connection read a reply to another number and ended
\* in the counter-mismatch error, the counter staying at 2
C31_Witness ==
  /\ dev = "amp"
  /\ pc = "done"
  /\ call.op = "standby"
  /\ call.seq = 2
  /\ Len(wire) = 2
  /\ ret.kind = "CounterMismatch"
  /\ tx_id = 2

\* C32: the PA temperature that telemetry reports is the reply's hltemp
\* value whenever hltemp is present and numeric, zero included, and the temp
\* value only when hltemp is absent or not numeric.
C32_PaTempFromHltemp ==
  (ParsedReply("telemetry") /\ ret.kind = "return")
    => LET kv == ExpectedKv(PayloadOf(hmatch, call.seq))
           hl == NumberOf(kv, "hltemp")
       IN ret.val.PA_TempC = IF hl.known THEN hl ELSE NumberOf(kv, "temp")

\* what a line of the persistence peer reports: "True" when the token after
\* the first "band_persistence_enabled=" is 1, true or True, "False" for
\* another token, "None" when there is no field or no token
ReportedBy(line) ==
  CASE line \in {<<PKEY, "1">>, <<PKEY, "t", "r", "u", "e">>, <<PKEY, "T", "r", "u", "e">>,
                 <<PKEY, " ", "1">>} -> "True"
    [] line \in {<<PKEY, "0">>, <<PKEY, "T", "R", "U", "E">>,
                 <<PKEY, "0", " ", PKEY, "1">>} -> "False"
    [] OTHER -> None

\* the value last reported by the lines, cur when none of them reports one
RECURSIVE LastReported(_, _)
LastReported(cur, lines) ==
  IF lines = <<>> THEN cur
  ELSE LastReported(IF ReportedBy(Head(lines)) = None THEN cur ELSE ReportedBy(Head(lines)),
                    Tail(lines))

RunCompleted ==
  /\ cmd = "run"
  /\ stmt = "exit"
  /\ ~opt.list_tests
  /\ raising # "KeyboardInterrupt"

\* C34: the test runner produces exactly one result per discovered case, in
\* discovery order; a case that raises is recorded as failed with the error
\* logged, and the run goes on: every later case is executed.
C34_OneResultPerCase ==
  RunCompleted
    => /\ Len(results) = Len(test_cases)
       /\ Len(issued) = Len(test_cases)
       /\ \A i \in 1..Len(test_cases) :
            /\ results[i].id = test_cases[i]
            /\ issued[i].op = test_cases[i]
            /\ issued[i].did.ends = "Exception"
                 => /\ results[i].failed = 1
                    /\ results[i].logs # <<>>
                    /\ results[i].logs[Len(results[i].logs)] = "Error"

\* the first of three cases raised, and the third was run and passed
C34_Witness ==
  /\ RunCompleted
  /\ test_cases = <<"b", "a", "b">>
  /\ issued[1].did.ends = "Exception"
  /\ results[1].failed = 1
  /\ issued[3].op = "b"
  /\ results[3].passed = 1

CallsOf(d, op) == {i \in 1..Len(issued) : issued[i].dev = d /\ issued[i].op = op}

\* C37: every flex command that connected to the radio calls disconnect
\* exactly once before it exits, after its last device call, whether the
\* operation succeeded or raised.
C37_FlexDisconnectsOnce ==
  (cmd = "flex" /\ stmt = "exit" /\ issued[1].kind = "return")
    => /\ Cardinality(CallsOf("radio", "disconnect")) = 1
       /\ issued[Len(issued)].op = "disconnect"

\* flex batch --tune-on --hold 1: the key-off after the hold timed out
C37_Witness ==
  /\ cmd = "flex"
  /\ stmt = "exit"
  /\ opt.name = "batch"
  /\ raising = "TimeoutError"
  /\ Len(issued) > 3
  /\ issued[Len(issued) - 1].op = "key_carrier_off"
  /\ issued[Len(issued)].op = "disconnect"

\* C36: whenever the sweep command has sent the OPERATE command to the
\* amplifier, it afterwards sends the STANDBY command and disconnects the
\* amplifier and the radio before it exits, on every exit path: normal
\* completion or any error after OPERATE was written, a failed OPERATE
\* reply included.
C36_SweepRestoresStandby ==
  (cmd = "sweep" /\ stmt = "exit")
    => \A i \in CallsOf("amp", "operate") :
         issued[i].wrote
           => /\ \E j \in CallsOf("amp", "standby") : j > i
              /\ \E j \in CallsOf("amp", "disconnect") : j > i
              /\ \E j \in CallsOf("radio", "disconnect") : j > i

\* C38: in the burn-in case, once the carrier has been keyed on (the
\* key-carrier-on command has gone to the radio), a key-carrier-off command
\* is issued before the case ends, also when a telemetry query raises inside
\* the sampling loop.
C38_CarrierKeyedOff ==
  (cmd = "burn_in" /\ stmt = "exit")
    => \A i \in CallsOf("radio", "key_carrier_on") :
         issued[i].wrote => \E j \in CallsOf("radio", "key_carrier_off") : j > i

====
